---- MODULE Spec2Model ----
(***************************************************************************)
(* Pharos: the download / install / indexing pipeline.                     *)
(*                                                                         *)
(*   download.py     Downloader: run loop, _download_port,                 *)
(*                   _update_manifest, _run_autoinstall,                   *)
(*                   fetch_repo_images                                     *)
(*   autoinstall.py  AutoInstaller: install_zip, gamelist_add              *)
(*   pharos.py       Pharos: dl_queue, progress_q, _ensure_worker,         *)
(*                   _download_wrapper, _update_ports, cleanup             *)
(*                                                                         *)
(* Specifications:                                                         *)
(*   Spec          the main thread (render, keys, _ensure_worker, cleanup) *)
(*                 and the DownloaderThread objects it starts              *)
(*   SpecLedger    one caller of _update_manifest, statement by statement, *)
(*                 with I/O failures and a process crash at any statement  *)
(*   SpecTransfer  one worker in Downloader.run on a queue the main thread *)
(*                 has filled, with failing transfers and ledger writes    *)
(*   SpecInstall   one caller of install_zip over staged archives          *)
(*   SpecMerge     gamelist_add on any index and any source document       *)
(*   SpecIndex     installs and direct merges from an absent or empty      *)
(*                 index                                                   *)
(*   SpecSticky    the worker of SpecTransfer with the render passes of    *)
(*                 the main thread and the passing of time                 *)
(*   SpecImages    one ImageFetcher thread in fetch_repo_images            *)
(*   SpecSentinel  one worker in _download_wrapper with None among the     *)
(*                 queued requests or put during the run                   *)
(*   SpecWriters   two callers of _update_manifest at once                 *)
(*   SpecPass      one worker through an install pass over staged archives *)
(*   SpecKinds     one request of any package under any kind, transferred  *)
(*                 and installed                                           *)
(***************************************************************************)
EXTENDS Integers, Sequences, FiniteSets, TLC

\* ------------------------------------------------------------------------
\* Bounds of the model
\* ------------------------------------------------------------------------
\* Number of pieces in which json.dump's text reaches the temp file.
WriteChunks == 2
\* Number of DownloaderThread objects the process may create.
MaxThreads == 2
\* Number of requests dl_queue holds at most.
MaxQueue == 2
\* Number of events progress_q holds at most before the main thread drains it.
MaxProgress == 2

Threads == 1..MaxThreads

\* ------------------------------------------------------------------------
\* Values
\* ------------------------------------------------------------------------
\* Package names (Port.name); "foo" and "Foo" differ only in letter case.
PortNames == {"foo", "Foo", "bar"}
Kinds == {"port", "bottle"}
None == "None"

\* What a game element of gameinfo.xml / gamelist.xml is: its <path> text
\* (NoPath when it has no <path> child) and the rest of its children.
NoPath == "NoPath"
Game(path, rest) == [path |-> path, rest |-> rest]
\* An XML file with root element `tag` and the <game> children `games`.
Xml(tag, games) == [t |-> "xml", tag |-> tag, games |-> games]

\* Byte contents a transfer may stage, by id: whether they are a zip
\* container, its entry names in namelist() order, whether extractall
\* raises on it, what its gameinfo.xml holds, and its length in chunks.
Archives ==
    [c1 |-> [zip |-> TRUE, entries |-> <<"foo/port.json", "foo/gameinfo.xml", "foo/data">>,
             extractable |-> TRUE,
             gameinfo |-> Xml("gameList", <<Game("./foo", "c1")>>), size |-> 1],
     c2 |-> [zip |-> TRUE, entries |-> <<"readme.txt">>,
             extractable |-> TRUE,
             gameinfo |-> [t |-> "nofile"], size |-> 2],
     c3 |-> [zip |-> TRUE, entries |-> <<"bar/bottle.json", "bar/data">>,
             extractable |-> TRUE,
             gameinfo |-> [t |-> "nofile"], size |-> 1],
     c4 |-> [zip |-> TRUE, entries |-> <<"bar/bottle.json", "bar/gameinfo.xml">>,
             extractable |-> TRUE,
             gameinfo |-> [t |-> "garbage"], size |-> 1]]
\* The contents a package may have been transferred with.
Served == {"c1", "c2"}
\* The bytes the download URL of a package serves (Port.download_url).
download_url(name) == CASE name = "foo" -> "c1" [] name = "bar" -> "c2" [] OTHER -> "c3"

\* str.lower() on the package names.
lower(s) == IF s = "Foo" THEN "foo" ELSE s

\* hashlib.md5(bytes).hexdigest() of the staged bytes.
md5_hash(c) == CASE c = "c1" -> "h1" [] c = "c2" -> "h2" [] OTHER -> "h3"

\* zip_path.stat().st_size of the staged bytes.
st_size(c) == Archives[c].size

\* The record of a Port whose md5 and size were never set.
PortRecordUnset(name, c) == [name |-> name, md5 |-> "None", size |-> 0]
\* The Port dataclass as asdict() writes it, after _download_port has set
\* md5 and size from the staged bytes c.
PortRecord(name, c) == [name |-> name, md5 |-> md5_hash(c), size |-> st_size(c)]

\* ------------------------------------------------------------------------
\* Files and JSON documents
\* ------------------------------------------------------------------------
NoFile == [t |-> "nofile"]
\* A file whose bytes are not JSON.
Garbage == [t |-> "garbage"]
\* A file holding the first n of the WriteChunks pieces of the text of v.
Text(v, n) == [t |-> "json", v |-> v, n |-> n]
\* A JSON object with the members of the function m.
JObj(m) == [j |-> "obj", m |-> m]
\* A JSON value that is not an object (a list, a number, null).
JList == [j |-> "list"]

Exists(f) == f.t # "nofile"
\* json.load succeeds only on the complete text of a value.
Parsable(f) == f.t = "json" /\ f.n = WriteChunks

EmptyManifest == [ports |-> <<>>, bottles |-> <<>>]

\* dict.get(k, [])
dict_get(m, k) == IF k \in DOMAIN m THEN m[k] ELSE <<>>

\* The load at the head of _update_manifest: the default document unless
\* the file exists and json.load succeeds (suppress(Exception)).
load_manifest(f) == IF Exists(f) /\ Parsable(f) THEN f.v ELSE JObj(EmptyManifest)

\* local_md5s[entry["name"]] = entry.get("md5") for the entries of "ports"
\* and then of "bottles": a later entry replaces an earlier one of its name.
RECURSIVE index_entries(_)
index_entries(es) ==
    IF es = <<>> THEN [n \in {} |-> None]
    ELSE LET e == es[Len(es)]
             before == index_entries(SubSeq(es, 1, Len(es) - 1))
         IN [n \in DOMAIN before \cup {e.name} |-> IF n = e.name THEN e.md5 ELSE before[n]]

\* The load at the import of pharos.py: {} when MANIFEST_PATH does not
\* exist.  The load is under no try: a file that json.load rejects or that
\* holds no object ends the import, so a process that runs and finds such a
\* file at a later time has started with the empty index.
load_local_md5s(f) ==
    IF Exists(f) /\ Parsable(f) /\ f.v.j = "obj"
    THEN index_entries(dict_get(f.v.m, "ports") \o dict_get(f.v.m, "bottles"))
    ELSE index_entries(<<>>)

\* local_md5s.get(name)
index_get(index, name) == IF name \in DOMAIN index THEN index[name] ELSE None

manifest_key(kind) == IF kind = "port" THEN "ports" ELSE "bottles"
manifest_other_key(kind) == IF kind = "port" THEN "bottles" ELSE "ports"

\* A case-sensitive comparison of the names.
name_differs_exact(d, port) == d.name # port.name
\* The filter of the list comprehension: keep d unless its name matches the
\* package name case-insensitively.
name_differs(d, port) == lower(d.name) # lower(port.name)

\* No record is dropped.
kept_records_all(m, key, port) == dict_get(m, key)
\* data[key] before the append.
kept_records(m, key, port) == SelectSeq(dict_get(m, key), LAMBDA d : name_differs(d, port))

\* The other partition is reset.
other_partition_reset(m, other_key) == <<>>
\* data[other_key] = data.get(other_key, [])
other_partition(m, other_key) == dict_get(m, other_key)

\* The members of data after the merge.
merge_manifest(m, port, kind) ==
    LET key == manifest_key(kind)
        other_key == manifest_other_key(kind)
    IN  [k \in DOMAIN m \cup {key, other_key} |->
            IF k = key THEN Append(kept_records(m, key, port), port)
            ELSE IF k = other_key THEN other_partition(m, other_key)
            ELSE m[k]]

\* ------------------------------------------------------------------------
\* State
\* ------------------------------------------------------------------------
VARIABLES
    faults,             \* the kinds of failure the environment produces in this run
    fs,                 \* fs.manifest (MANIFEST_PATH) and fs.tmp (its .tmp sibling)
    staging,            \* staging[name]: the file {name}.zip of AUTOINSTALL_DIR
    lib,                \* lib[root]: the files extracted into a library root and its gamelist.xml
    dl_queue,           \* Pharos.dl_queue
    progress_q,         \* Pharos.progress_q
    download_active,    \* Pharos.download_active
    ui_pc,              \* the statement the main thread is at
    current_view,       \* Pharos.current_view
    repo_idx,           \* Pharos.repo_idx
    key_b,              \* the Back key is down in the frame being handled
    put_idx,            \* how many items the loop of the All key has put
    latest,             \* the local `latest` of _render_ports
    last_progress_msg,  \* Pharos.last_progress_msg
    sticky_age,         \* whole seconds from Pharos.last_progress_time to now
    pc,                 \* pc[t]: the statement thread t is at
    port,               \* port[t]: the Port thread t is handling (name, md5, size)
    kind,               \* kind[t]: the kind of the request thread t is handling
    content,            \* content[t]: the bytes the server sends for t's transfer
    downloaded,         \* downloaded[t]: the local `downloaded` of _download_port, in chunks
    total,              \* total[t]: the local `total` of _download_port (Content-Length)
    zip_files,          \* zip_files[t]: what is left of the local `zip_files` of _run_autoinstall
    result,             \* result[t]: what install_zip returned to t
    data,               \* data[t]: the local `data` of _update_manifest
    um_pre,             \* um_pre[t]: the manifest file as it was when t entered _update_manifest
    um_repeat,          \* um_repeat[t]: t's call repeats the (port, kind) of the call that
                        \* returned normally just before it
    pending_install,    \* the archives a successful transfer staged that no install
                        \* pass has attempted since
    merge_call,         \* the gamelist_add call made directly: its root, its source
                        \* document, the gamelist.xml it found, where it is
    images,             \* a Repository.images_dir: its files, images.json, images.zip
    sync,               \* the ImageFetcher thread: where it is in fetch_repo_images
                        \* and its locals
    fd,                 \* fd[t]: the file object `f` t has open in _update_manifest:
                        \* the path its file is at now and t's position in it
    local_md5s          \* the module-level dict local_md5s of pharos.py

vars == <<faults, merge_call, images, sync, fd, local_md5s, fs, staging, lib, dl_queue, progress_q, download_active, ui_pc,
          current_view, repo_idx, key_b, put_idx, latest, last_progress_msg, sticky_age,
          pc, port,
          kind, content, downloaded, total, zip_files, result, data, um_pre, um_repeat,
          pending_install>>

\* What only the direct gamelist_add call, the ImageFetcher thread and the
\* file statements of _update_manifest write.
sideVars == <<merge_call, images, sync, fd, local_md5s>>
\* What the main thread alone writes.
uiVars == <<ui_pc, current_view, repo_idx, key_b, put_idx, latest, last_progress_msg,
           sticky_age>>
\* The locals of a worker other than those of _update_manifest.
workLocals == <<content, downloaded, total, zip_files, result>>
\* What _update_manifest leaves alone.
umFrame == <<faults, sideVars, staging, lib, dl_queue, progress_q, download_active, uiVars,
             port, kind, workLocals, um_pre, um_repeat, pending_install>>
\* What the file statements of _update_manifest leave alone.
umFileFrame == <<faults, merge_call, images, sync, local_md5s, staging, lib, dl_queue, progress_q,
                 download_active, uiVars, port, kind, workLocals, um_pre, um_repeat,
                 pending_install>>

\* Whether an operation subject to the failure class f succeeds.
Outcomes(f) == IF f \in faults THEN BOOLEAN ELSE {TRUE}

\* Path the document is written to before the rename, mutated: the live path.
TmpPathLive == "manifest"
\* tmp = MANIFEST_PATH.with_suffix(".tmp")
TmpPath == "tmp"

NoPort == [name |-> None, md5 |-> None, size |-> 0]
NoData == JObj([k \in {} |-> <<>>])
\* No file {name}.zip; otherwise the first n chunks of the bytes c.
NoZip == [c |-> None, n |-> 0]
Zip(c, n) == [c |-> c, n |-> n]

\* os.replace(src, dst)
os_replace(files, src, dst) ==
    IF src = dst THEN files
    ELSE [files EXCEPT ![dst] = files[src], ![src] = NoFile]

\* No open file.
NoFd == [at |-> None, off |-> 0]
\* The file objects after os.replace(src, dst): an open file stays with its
\* file, which is at dst now; the file that was at dst has no path left.
fd_replace(fds, src, dst) ==
    [u \in DOMAIN fds |->
        IF fds[u].at = src THEN [fds[u] EXCEPT !.at = dst]
        ELSE IF fds[u].at = dst THEN [fds[u] EXCEPT !.at = "unlinked"]
        ELSE fds[u]]
\* The file objects after path.unlink().
fd_unlink(fds, path) ==
    [u \in DOMAIN fds |-> IF fds[u].at = path THEN [fds[u] EXCEPT !.at = "unlinked"] ELSE fds[u]]
\* The file f after the piece off + 1 of the text of v is written at the
\* position off: the next piece of the same text, bytes that are there
\* already, or a file that is the text of no single value.
write_piece(f, v, off) ==
    IF f.t = "json" /\ f.v = v /\ f.n >= off
    THEN Text(v, IF f.n = off THEN off + 1 ELSE f.n)
    ELSE Garbage

\* ------------------------------------------------------------------------
\* Downloader._update_manifest, one statement per action
\* ------------------------------------------------------------------------
\* data = {...}; if MANIFEST_PATH.exists(): with suppress(Exception): json.load
update_manifest_load(t) ==
    /\ pc[t] = "um_load"
    /\ data' = [data EXCEPT ![t] = load_manifest(fs.manifest)]
    /\ pc' = [pc EXCEPT ![t] = "um_merge"]
    /\ UNCHANGED <<fs, umFrame>>

\* key, other_key, the filter, the append, the other partition. data.get
\* raises AttributeError when the loaded value is not an object; nothing in
\* _update_manifest catches it.
update_manifest_merge(t) ==
    /\ pc[t] = "um_merge"
    /\ IF data[t].j = "obj"
       THEN /\ data' = [data EXCEPT ![t] = JObj(merge_manifest(data[t].m, port[t], kind[t]))]
            /\ pc' = [pc EXCEPT ![t] = "um_open"]
       ELSE /\ pc' = [pc EXCEPT ![t] = "um_raised"]
            /\ data' = [data EXCEPT ![t] = NoData]
    /\ UNCHANGED <<fs, umFrame>>

\* open(tmp, "w"): creates the file, or truncates the one that is at the
\* path (a file another caller may have open), or raises.
update_manifest_open(t) ==
    /\ pc[t] = "um_open"
    /\ \E ok \in Outcomes("ledger_io") :
        IF ok
        THEN /\ fs' = [fs EXCEPT ![TmpPath] = Text(data[t], 0)]
             /\ fd' = [fd EXCEPT ![t] = [at |-> TmpPath, off |-> 0]]
             /\ pc' = [pc EXCEPT ![t] = "um_dump"]
        ELSE /\ pc' = [pc EXCEPT ![t] = "um_except"]
             /\ UNCHANGED <<fs, fd>>
    /\ UNCHANGED <<data, umFileFrame>>

\* json.dump(data, f, indent=2): the text reaches the file f is open on,
\* wherever that file is by now, piece by piece, and a write may raise (the
\* with statement then closes f).
update_manifest_dump(t) ==
    /\ pc[t] = "um_dump"
    /\ \E ok \in Outcomes("ledger_io") :
        IF ok
        THEN /\ fs' = IF fd[t].at \in DOMAIN fs
                      THEN [fs EXCEPT ![fd[t].at] = write_piece(@, data[t], fd[t].off)]
                      ELSE fs
             /\ fd' = [fd EXCEPT ![t].off = @ + 1]
             /\ pc' = [pc EXCEPT ![t] =
                    IF fd[t].off + 1 = WriteChunks THEN "um_fsync" ELSE "um_dump"]
        ELSE /\ pc' = [pc EXCEPT ![t] = "um_except"]
             /\ fd' = [fd EXCEPT ![t] = NoFd]
             /\ UNCHANGED fs
    /\ UNCHANGED <<data, umFileFrame>>

\* f.flush(); os.fsync(f.fileno()); the file is closed.
update_manifest_fsync(t) ==
    /\ pc[t] = "um_fsync"
    /\ \E ok \in Outcomes("ledger_io") :
        pc' = [pc EXCEPT ![t] = IF ok THEN "um_replace" ELSE "um_except"]
    /\ fd' = [fd EXCEPT ![t] = NoFd]
    /\ UNCHANGED <<fs, data, umFileFrame>>

\* os.replace, mutated: the index is loaded again from the ledger written.
update_manifest_replace_reloads(t) ==
    /\ pc[t] = "um_replace"
    /\ \E ok \in Outcomes("ledger_io") :
        IF ok /\ Exists(fs[TmpPath])
        THEN /\ fs' = os_replace(fs, TmpPath, "manifest")
             /\ fd' = fd_replace(fd, TmpPath, "manifest")
             /\ pc' = [pc EXCEPT ![t] = "um_done"]
             /\ data' = [data EXCEPT ![t] = NoData]
             /\ local_md5s' = load_local_md5s(fs'.manifest)
        ELSE /\ pc' = [pc EXCEPT ![t] = "um_except"]
             /\ UNCHANGED <<fs, fd, data, local_md5s>>
    /\ UNCHANGED <<faults, merge_call, images, sync, staging, lib, dl_queue, progress_q,
                   download_active, uiVars, port, kind, workLocals, um_pre, um_repeat,
                   pending_install>>

\* os.replace(tmp, MANIFEST_PATH): atomic, or raises (FileNotFoundError
\* when no file is at tmp) and changes nothing.
update_manifest_replace(t) ==
    /\ pc[t] = "um_replace"
    /\ \E ok \in Outcomes("ledger_io") :
        IF ok /\ Exists(fs[TmpPath])
        THEN /\ fs' = os_replace(fs, TmpPath, "manifest")
             /\ fd' = fd_replace(fd, TmpPath, "manifest")
             /\ pc' = [pc EXCEPT ![t] = "um_done"]
             /\ data' = [data EXCEPT ![t] = NoData]
        ELSE /\ pc' = [pc EXCEPT ![t] = "um_except"]
             /\ UNCHANGED <<fs, fd, data>>
    /\ UNCHANGED umFileFrame

\* except Exception: print; with suppress(OSError): tmp.unlink()
update_manifest_except(t) ==
    /\ pc[t] = "um_except"
    /\ fs' = [fs EXCEPT ![TmpPath] = NoFile]
    /\ fd' = fd_unlink(fd, TmpPath)
    /\ pc' = [pc EXCEPT ![t] = "um_failed"]
    /\ data' = [data EXCEPT ![t] = NoData]
    /\ UNCHANGED umFileFrame

update_manifest(t) ==
    \/ update_manifest_load(t)
    \/ update_manifest_merge(t)
    \/ update_manifest_open(t)
    \/ update_manifest_dump(t)
    \/ update_manifest_fsync(t)
    \/ update_manifest_replace(t)
    \/ update_manifest_except(t)

InUpdateManifest(t) ==
    pc[t] \in {"um_load", "um_merge", "um_open", "um_dump", "um_fsync",
               "um_replace", "um_except"}

\* The entry of _update_manifest(port, kind): port carries the md5 and size
\* of the staged bytes.
enter_update_manifest(t, rec, k) ==
    /\ port' = [port EXCEPT ![t] = rec]
    /\ kind' = [kind EXCEPT ![t] = k]
    /\ um_pre' = [um_pre EXCEPT ![t] = fs.manifest]
    /\ pc' = [pc EXCEPT ![t] = "um_load"]

\* ------------------------------------------------------------------------
\* Progress events
\* ------------------------------------------------------------------------
\* Port.title of the catalog entries.
title(name) == CASE name = "foo" -> "Foo Game" [] name = "Foo" -> "FOO Game"
                 [] name = "bar" -> "Bar Game" [] OTHER -> name
zip_name(name) == <<name, ".zip">>

\* The tuple (dl, tot, txt, stage) put on progress_q.
Event(dl, tot, txt, stage) == [dl |-> dl, tot |-> tot, txt |-> txt, stage |-> stage]
\* The chunk event, mutated: total where the code has total or downloaded.
ChunkEvent_header_total(name, dl, tot) ==
    Event(dl, tot, <<"progress", title(name)>>, "download")
\* f"{port.title} ({pct:.1f}%) ...": downloaded, total or downloaded
ChunkEvent(name, dl, tot) ==
    Event(dl, IF tot # 0 THEN tot ELSE dl, <<"progress", title(name)>>, "download")
DownloadedEvent(name, dl) == Event(dl, dl, <<"Downloaded", title(name)>>, "download")
FailedEvent(name) == Event(0, 1, <<"Failed", zip_name(name)>>, "download")
PhaseEvent == Event(0, 1, <<"Installing packages">>, "phase")
InstallingEvent(name) == Event(0, 1, <<"Installing", zip_name(name)>>, "install")
StatusEvent(name, res) ==
    Event(0, 1, <<IF res # 0 THEN "[ERROR] Install failed" ELSE "Installed", zip_name(name)>>,
          "install")
CompleteEvent == Event(0, 1, <<"Installation complete">>, "install")
\* None where an event tuple is expected (latest, last_progress_msg).
NoEvent == Event(0, 0, <<>>, "none")

\* progress_q is unbounded in the program. Where the main thread runs beside
\* the producer (ui_pc is not "off"), the model holds the producer back at
\* MaxProgress undelivered events; a worker taken alone puts without bound.
CanPut == ui_pc = "off" \/ Len(progress_q) < MaxProgress
\* progress_q.put(ev)
put_progress(ev) == progress_q' = Append(progress_q, ev)

\* ------------------------------------------------------------------------
\* Downloader._download_port, one statement per action
\* ------------------------------------------------------------------------
\* What _download_port leaves alone besides its own locals and the files.
dlFrame == <<faults, sideVars, lib, dl_queue, download_active, uiVars, zip_files, result,
             data, um_repeat>>
\* {name}.zip is created, truncated or removed: what it held is no longer staged.
unstage(name) == pending_install' = pending_install \ {name}

\* zip_path; urlopen(req, timeout=60); total, downloaded = 0, start
download_port_open(t) ==
    /\ pc[t] = "dl_open"
    /\ \E ok \in Outcomes("transfer") :
        IF ok
        THEN \E known \in Outcomes("no_length") :
                LET c == download_url(port[t].name)
                IN  /\ content' = [content EXCEPT ![t] = c]
                    /\ total' = [total EXCEPT ![t] = IF known THEN st_size(c) ELSE 0]
                    /\ downloaded' = [downloaded EXCEPT ![t] = 0]
                    /\ pc' = [pc EXCEPT ![t] = "dl_create"]
        ELSE /\ pc' = [pc EXCEPT ![t] = "dl_except"]
             /\ UNCHANGED <<content, total, downloaded>>
    /\ UNCHANGED <<fs, staging, progress_q, port, kind, um_pre, pending_install, dlFrame>>

\* open(zip_path, "wb"): creates or truncates {name}.zip, or raises.
download_port_create(t) ==
    /\ pc[t] = "dl_create"
    /\ \E ok \in Outcomes("transfer") :
        IF ok
        THEN /\ staging' = [staging EXCEPT ![port[t].name] = Zip(content[t], 0)]
             /\ unstage(port[t].name)
             /\ pc' = [pc EXCEPT ![t] = "dl_read"]
        ELSE /\ pc' = [pc EXCEPT ![t] = "dl_except"]
             /\ UNCHANGED <<staging, pending_install>>
    /\ UNCHANGED <<fs, progress_q, port, kind, content, total, downloaded, um_pre, dlFrame>>

\* One turn of the loop: resp.read(chunk); if not data: break; f.write(data);
\* downloaded += len(data); progress_q.put(...). read and write may raise.
download_port_read(t) ==
    /\ pc[t] = "dl_read"
    /\ \E ok \in Outcomes("transfer") :
        IF ~ok
        THEN /\ pc' = [pc EXCEPT ![t] = "dl_except"]
             /\ UNCHANGED <<staging, downloaded, progress_q>>
        ELSE IF downloaded[t] = st_size(content[t])
        THEN /\ pc' = [pc EXCEPT ![t] = "dl_final"]
             /\ UNCHANGED <<staging, downloaded, progress_q>>
        ELSE /\ CanPut
             /\ staging' = [staging EXCEPT ![port[t].name] = Zip(content[t], downloaded[t] + 1)]
             /\ downloaded' = [downloaded EXCEPT ![t] = downloaded[t] + 1]
             /\ put_progress(ChunkEvent(port[t].name, downloaded[t] + 1, total[t]))
             /\ pc' = [pc EXCEPT ![t] = "dl_read"]
    /\ UNCHANGED <<fs, port, kind, content, total, um_pre, pending_install, dlFrame>>

\* The final sticky message.
download_port_final(t) ==
    /\ pc[t] = "dl_final"
    /\ CanPut
    /\ put_progress(DownloadedEvent(port[t].name, downloaded[t]))
    /\ pc' = [pc EXCEPT ![t] = "dl_hash"]
    /\ UNCHANGED <<fs, staging, port, kind, content, total, downloaded, um_pre,
                   pending_install, dlFrame>>

\* md5 of the staged file, port.md5, port.size, the call of _update_manifest;
\* reading the staged file may raise.
download_port_hash(t) ==
    /\ pc[t] = "dl_hash"
    /\ \E ok \in Outcomes("transfer") :
        IF ok
        THEN enter_update_manifest(t, PortRecord(port[t].name, staging[port[t].name].c), kind[t])
        ELSE /\ pc' = [pc EXCEPT ![t] = "dl_except"]
             /\ UNCHANGED <<port, kind, um_pre>>
    /\ UNCHANGED <<faults, sideVars, fs, staging, lib, dl_queue, progress_q, download_active, uiVars,
                   workLocals, data, um_repeat, pending_install>>

\* _download_port is left: its locals go out of scope, and run does not read
\* port and kind again before the next get.
leave_download_port(t) ==
    /\ port' = [port EXCEPT ![t] = NoPort]
    /\ kind' = [kind EXCEPT ![t] = None]
    /\ um_pre' = [um_pre EXCEPT ![t] = NoFile]
    /\ content' = [content EXCEPT ![t] = None]
    /\ downloaded' = [downloaded EXCEPT ![t] = 0]
    /\ total' = [total EXCEPT ![t] = 0]
    /\ pc' = [pc EXCEPT ![t] = "check"]

\* The exception leaves _download_port and run: no event, the file stays.
download_port_propagates(t) ==
    /\ pc[t] \in {"dl_except", "um_raised"}
    /\ pc' = [pc EXCEPT ![t] = "crashing"]
    /\ UNCHANGED <<fs, staging, progress_q, port, kind, content, total, downloaded, um_pre,
                   pending_install, dlFrame>>

\* The except clause, mutated: only a file this transfer has written to is
\* unlinked.
download_port_except_unlinks_own(t) ==
    /\ pc[t] \in {"dl_except", "um_raised"}
    /\ CanPut
    /\ put_progress(FailedEvent(port[t].name))
    /\ staging' = IF downloaded[t] > 0 THEN [staging EXCEPT ![port[t].name] = NoZip] ELSE staging
    /\ unstage(port[t].name)
    /\ leave_download_port(t)
    /\ UNCHANGED <<fs, dlFrame>>

\* The except clause, mutated: the failed request is put on dl_queue again.
download_port_except_requeues(t) ==
    /\ pc[t] \in {"dl_except", "um_raised"}
    /\ CanPut
    /\ put_progress(FailedEvent(port[t].name))
    /\ staging' = [staging EXCEPT ![port[t].name] = NoZip]
    /\ unstage(port[t].name)
    /\ leave_download_port(t)
    /\ dl_queue' = IF Len(dl_queue) < MaxQueue
                   THEN Append(dl_queue, <<port[t].name, kind[t]>>) ELSE dl_queue
    /\ UNCHANGED <<fs, faults, sideVars, lib, download_active, uiVars, zip_files, result, data,
                   um_repeat>>

\* except Exception: self._fail(port, ...); with suppress(OSError): zip_path.unlink()
\* The clause is entered from a failed statement of the try block, or by an
\* exception that left _update_manifest.
download_port_except(t) ==
    /\ pc[t] \in {"dl_except", "um_raised"}
    /\ CanPut
    /\ put_progress(FailedEvent(port[t].name))
    /\ staging' = [staging EXCEPT ![port[t].name] = NoZip]
    /\ unstage(port[t].name)
    /\ leave_download_port(t)
    /\ UNCHANGED <<fs, dlFrame>>

\* _update_manifest returned: _download_port returns to run, the transfer
\* having succeeded.
download_port_return(t) ==
    /\ pc[t] \in {"um_done", "um_failed"}
    /\ pending_install' = pending_install \cup {port[t].name}
    /\ leave_download_port(t)
    /\ UNCHANGED <<fs, staging, progress_q, dlFrame>>

download_port(t) ==
    \/ download_port_open(t)
    \/ download_port_create(t)
    \/ download_port_read(t)
    \/ download_port_final(t)
    \/ download_port_hash(t)
    \/ update_manifest(t)
    \/ download_port_except(t)
    \/ download_port_return(t)

\* ------------------------------------------------------------------------
\* AutoInstaller.gamelist_add
\* ------------------------------------------------------------------------
\* A path that is a directory: open() on it raises an OSError.
Dir == [t |-> "dir"]

\* A document whose root tag is not gameList is replaced by a new root.
gamelist_root_fresh(gl) ==
    IF gl.t = "xml" /\ gl.tag \in {"gameList", "gamelist", "GAMELIST"}
    THEN [tag |-> gl.tag, games |-> gl.games]
    ELSE [tag |-> "gameList", games |-> <<>>]

\* The root element gamelist_add works on: the parsed document with its tag
\* normalised, or a new gameList when the file is absent or does not parse.
gamelist_root(gl) ==
    IF gl.t = "xml"
    THEN [tag |-> IF gl.tag \in {"gameList", "gamelist", "GAMELIST"} THEN gl.tag ELSE "gameList",
          games |-> gl.games]
    ELSE [tag |-> "gameList", games |-> <<>>]

\* existing_paths, mutated: no path of the index is collected.
existing_paths_none(games) == {}
\* existing_paths: the <path> texts of the games that have a <path>.
existing_paths(games) == {games[i].path : i \in {j \in DOMAIN games : games[j].path # NoPath}}

\* The loop, mutated: a game without a <path> is appended as well.
RECURSIVE append_new_pathless(_, _, _)
append_new_pathless(src, games, seen) ==
    IF src = <<>> THEN games
    ELSE LET game == Head(src)
         IN  IF game.path = NoPath
             THEN append_new_pathless(Tail(src), Append(games, game), seen)
             ELSE IF game.path \notin seen
             THEN append_new_pathless(Tail(src), Append(games, game), seen \cup {game.path})
             ELSE append_new_pathless(Tail(src), games, seen)

\* New games are put in front of the root's children.
RECURSIVE append_new_front(_, _, _)
append_new_front(src, games, seen) ==
    IF src = <<>> THEN games
    ELSE LET game == Head(src)
         IN  IF game.path # NoPath /\ game.path \notin seen
             THEN append_new_front(Tail(src), <<game>> \o games, seen \cup {game.path})
             ELSE append_new_front(Tail(src), games, seen)

\* existing_paths.add(path) is left out.
RECURSIVE append_new_unseen(_, _, _)
append_new_unseen(src, games, seen) ==
    IF src = <<>> THEN games
    ELSE LET game == Head(src)
         IN  IF game.path # NoPath /\ game.path \notin seen
             THEN append_new_unseen(Tail(src), Append(games, game), seen)
             ELSE append_new_unseen(Tail(src), games, seen)

\* The loop over root_gameinfo.findall("game"): the games of the root after it.
RECURSIVE append_new(_, _, _)
append_new(src, games, seen) ==
    IF src = <<>> THEN games
    ELSE LET game == Head(src)
         IN  IF game.path # NoPath /\ game.path \notin seen
             THEN append_new(Tail(src), Append(games, game), seen \cup {game.path})
             ELSE append_new(Tail(src), games, seen)

\* The document is written whatever count is.
gamelist_add_always_writes(gameinfo, gl, w) ==
    IF gameinfo.t # "xml" THEN [raised |-> FALSE, count |-> 0, gamelist |-> gl]
    ELSE IF gl.t = "dir" THEN [raised |-> TRUE, count |-> 0, gamelist |-> gl]
    ELSE LET root == gamelist_root(gl)
             games == append_new(gameinfo.games, root.games, existing_paths(root.games))
         IN  [raised |-> FALSE, count |-> Len(games) - Len(root.games),
              gamelist |-> Xml(root.tag, games)]

\* gamelist_add(gameinfo_file, gamelist_path) on the file contents gameinfo
\* and gl, the write ending as w says: whether it raised, the count it
\* computed, and the gamelist.xml it leaves.
gamelist_add(gameinfo, gl, w) ==
    IF gameinfo.t # "xml" THEN [raised |-> FALSE, count |-> 0, gamelist |-> gl]
    ELSE IF gl.t = "dir" THEN [raised |-> TRUE, count |-> 0, gamelist |-> gl]
    ELSE LET root == gamelist_root(gl)
             games == append_new(gameinfo.games, root.games, existing_paths(root.games))
             count == Len(games) - Len(root.games)
         IN  IF count = 0 THEN [raised |-> FALSE, count |-> 0, gamelist |-> gl]
             ELSE IF w = "ok" THEN [raised |-> FALSE, count |-> count,
                                    gamelist |-> Xml(root.tag, games)]
             ELSE IF w = "open_raises" THEN [raised |-> TRUE, count |-> count, gamelist |-> gl]
             ELSE [raised |-> TRUE, count |-> count, gamelist |-> Garbage]

\* How tree.write may end: the file is truncated when it is opened, so a
\* write that raises leaves an incomplete document.
WriteOutcomes == IF "index_io" \in faults THEN {"ok", "open_raises", "write_raises"} ELSE {"ok"}

\* ------------------------------------------------------------------------
\* AutoInstaller.install_zip, one step per action
\* ------------------------------------------------------------------------
\* str.endswith on the entry names of the archives.
ends_with_port_json(e) == e \in {"foo/port.json", "docs/support.json"}
ends_with_bottle_json(e) == e \in {"bar/bottle.json"}
ends_with_gameinfo(e) == e \in {"foo/gameinfo.xml", "bar/gameinfo.xml", "__MACOSX/gameinfo.xml"}
\* What the clean-up after extractall removes: __MACOSX trees, *.DS_Store.
is_junk(e) == e \in {"__MACOSX/gameinfo.xml", ".DS_Store"}

Min(S) == CHOOSE x \in S : \A y \in S : x <= y
\* The first of the elements of seq at the indices idx (where the loop
\* breaks), None when there is none.
first_in(seq, idx) == IF idx = {} THEN None ELSE seq[Min(idx)]

\* target_json: the first entry ending in port.json or bottle.json.
target_json(entries) ==
    first_in(entries, {i \in DOMAIN entries :
                        ends_with_port_json(entries[i]) \/ ends_with_bottle_json(entries[i])})
\* base_dir, mutated: the roots are exchanged.
base_dir_exchanged(target) == IF ends_with_port_json(target) THEN "windows" ELSE "ports"
\* base_dir: PORTS_DIR or WINDOWS_DIR
base_dir(target) == IF ends_with_port_json(target) THEN "ports" ELSE "windows"

\* The zip being installed, and whether ZipFile() opens it.
ZipOf(t) == staging[Head(zip_files[t])]
is_zipfile(z) == z.c # None /\ Archives[z.c].zip /\ z.n = st_size(z.c)
ArchiveOf(t) == Archives[ZipOf(t).c]

\* What install_zip leaves alone besides the files and its result.
izFrame == <<faults, sideVars, fs, dl_queue, progress_q, download_active, uiVars, port, kind, content,
             downloaded, total, zip_files, data, um_pre, um_repeat, pending_install>>

\* if not zip_path.is_file(): return 255
install_zip_isfile(t) ==
    /\ pc[t] = "iz_isfile"
    /\ IF ZipOf(t) = NoZip
       THEN pc' = [pc EXCEPT ![t] = "iz_ret"] /\ result' = [result EXCEPT ![t] = 255]
       ELSE pc' = [pc EXCEPT ![t] = "iz_open"] /\ UNCHANGED result
    /\ UNCHANGED <<staging, lib, izFrame>>

\* The opening of the archive, mutated: an archive that does not open or
\* has no descriptor is deleted.
install_zip_open_unlinks_bad(t) ==
    /\ pc[t] = "iz_open"
    /\ IF is_zipfile(ZipOf(t)) /\ target_json(ArchiveOf(t).entries) # None
       THEN pc' = [pc EXCEPT ![t] = "iz_extract"] /\ UNCHANGED <<result, staging>>
       ELSE /\ pc' = [pc EXCEPT ![t] = "iz_ret"]
            /\ result' = [result EXCEPT ![t] = 255]
            /\ staging' = [staging EXCEPT ![Head(zip_files[t])] = NoZip]
    /\ UNCHANGED <<lib, izFrame>>

\* The opening of the archive, mutated: the merge comes before extractall.
install_zip_open_then_merge(t) ==
    /\ pc[t] = "iz_open"
    /\ IF is_zipfile(ZipOf(t)) /\ target_json(ArchiveOf(t).entries) # None
       THEN pc' = [pc EXCEPT ![t] = "iz_merge"] /\ UNCHANGED result
       ELSE pc' = [pc EXCEPT ![t] = "iz_ret"] /\ result' = [result EXCEPT ![t] = 255]
    /\ UNCHANGED <<staging, lib, izFrame>>

\* zipfile.ZipFile(zip_path): BadZipFile is caught and 255 returned; the
\* search for the descriptor: 255 when there is none.
install_zip_open(t) ==
    /\ pc[t] = "iz_open"
    /\ IF is_zipfile(ZipOf(t)) /\ target_json(ArchiveOf(t).entries) # None
       THEN pc' = [pc EXCEPT ![t] = "iz_extract"] /\ UNCHANGED result
       ELSE pc' = [pc EXCEPT ![t] = "iz_ret"] /\ result' = [result EXCEPT ![t] = 255]
    /\ UNCHANGED <<staging, lib, izFrame>>

\* How many entries extractall writes before it returns or raises.
ExtractCounts(a) ==
    IF ~a.extractable THEN 0..(Len(a.entries) - 1)
    ELSE IF "extract" \in faults THEN 0..Len(a.entries)
    ELSE {Len(a.entries)}

\* An extraction that raises removes the staged archive.
install_zip_extract_unlinks(t) ==
    /\ pc[t] = "iz_extract"
    /\ LET a == ArchiveOf(t)
           root == base_dir(target_json(a.entries))
       IN  \E n \in ExtractCounts(a) :
            LET written == lib[root].files \cup {a.entries[i] : i \in 1..n}
            IN  IF n = Len(a.entries)
                THEN /\ lib' = [lib EXCEPT ![root].files = {e \in written : ~is_junk(e)}]
                     /\ pc' = [pc EXCEPT ![t] = "iz_merge"]
                     /\ UNCHANGED <<result, staging>>
                ELSE /\ lib' = [lib EXCEPT ![root].files = written]
                     /\ pc' = [pc EXCEPT ![t] = "iz_ret"]
                     /\ result' = [result EXCEPT ![t] = 255]
                     /\ staging' = [staging EXCEPT ![Head(zip_files[t])] = NoZip]
    /\ UNCHANGED izFrame
\* zf.extractall(base_dir) and the removal of the macOS junk; an exception
\* is caught and 255 returned.
install_zip_extract(t) ==
    /\ pc[t] = "iz_extract"
    /\ LET a == ArchiveOf(t)
           root == base_dir(target_json(a.entries))
       IN  \E n \in ExtractCounts(a) :
            LET written == lib[root].files \cup {a.entries[i] : i \in 1..n}
            IN  IF n = Len(a.entries)
                THEN /\ lib' = [lib EXCEPT ![root].files = {e \in written : ~is_junk(e)}]
                     /\ pc' = [pc EXCEPT ![t] = "iz_merge"]
                     /\ UNCHANGED result
                ELSE /\ lib' = [lib EXCEPT ![root].files = written]
                     /\ pc' = [pc EXCEPT ![t] = "iz_ret"]
                     /\ result' = [result EXCEPT ![t] = 255]
    /\ UNCHANGED <<staging, izFrame>>

\* The search for gameinfo.xml among the extracted files, and gamelist_add;
\* an exception gamelist_add lets through is caught and 255 returned.
install_zip_merge(t) ==
    /\ pc[t] = "iz_merge"
    /\ LET a == ArchiveOf(t)
           root == base_dir(target_json(a.entries))
           gameinfo_file == first_in(a.entries, {i \in DOMAIN a.entries :
                ends_with_gameinfo(a.entries[i]) /\ a.entries[i] \in lib[root].files})
       IN  IF gameinfo_file = None
           THEN /\ pc' = [pc EXCEPT ![t] = "iz_unlink"]
                /\ UNCHANGED <<lib, result>>
           ELSE \E w \in WriteOutcomes :
                LET r == gamelist_add(a.gameinfo, lib[root].gamelist, w)
                IN  /\ lib' = [lib EXCEPT ![root].gamelist = r.gamelist]
                    /\ IF r.raised
                       THEN /\ pc' = [pc EXCEPT ![t] = "iz_ret"]
                            /\ result' = [result EXCEPT ![t] = 255]
                       ELSE /\ pc' = [pc EXCEPT ![t] = "iz_unlink"]
                            /\ UNCHANGED result
    /\ UNCHANGED <<staging, izFrame>>

\* zip_path.unlink(missing_ok=True); return 0. The unlink is outside the
\* try: an OSError it raises leaves install_zip.
install_zip_unlink(t) ==
    /\ pc[t] = "iz_unlink"
    /\ \E ok \in Outcomes("unlink") :
        IF ok
        THEN /\ staging' = [staging EXCEPT ![Head(zip_files[t])] = NoZip]
             /\ result' = [result EXCEPT ![t] = 0]
             /\ pc' = [pc EXCEPT ![t] = "iz_ret"]
        ELSE /\ pc' = [pc EXCEPT ![t] = "crashing"]
             /\ UNCHANGED <<staging, result>>
    /\ UNCHANGED <<lib, izFrame>>

install_zip(t) ==
    \/ install_zip_isfile(t)
    \/ install_zip_open(t)
    \/ install_zip_extract(t)
    \/ install_zip_merge(t)
    \/ install_zip_unlink(t)

\* ------------------------------------------------------------------------
\* AutoInstaller.gamelist_add called on its own
\* ------------------------------------------------------------------------
\* No call has been made.
NoMerge == [pc |-> "idle", root |-> None, src |-> NoFile, pre |-> NoFile,
            ret |-> <<>>, printed |-> <<>>]

\* What the direct call leaves alone.
gaFrame == <<faults, images, sync, fd, local_md5s, fs, staging, dl_queue, progress_q, download_active, uiVars,
             pc, port, kind, workLocals, data, um_pre, um_repeat, pending_install>>

\* gamelist_add(gameinfo_file, gamelist_path) with the file contents src as
\* gameinfo_file and the gamelist.xml of the library root as gamelist_path.
gamelist_add_call(root, src) ==
    /\ merge_call.pc # "called"
    /\ merge_call' = [pc |-> "called", root |-> root, src |-> src, pre |-> lib[root].gamelist,
                      ret |-> <<>>, printed |-> <<>>]
    /\ UNCHANGED <<lib, gaFrame>>

\* The body of gamelist_add, mutated: it ends with `return count`.
gamelist_add_body_returns_count ==
    /\ merge_call.pc = "called"
    /\ \E w \in WriteOutcomes :
        LET r == gamelist_add(merge_call.src, lib[merge_call.root].gamelist, w)
        IN  /\ lib' = [lib EXCEPT ![merge_call.root].gamelist = r.gamelist]
            /\ merge_call' = [merge_call EXCEPT
                    !.pc = IF r.raised THEN "raised" ELSE "returned",
                    !.ret = IF r.raised THEN <<>> ELSE <<r.count>>,
                    !.printed = IF r.raised \/ merge_call.src.t # "xml" THEN <<>>
                                ELSE <<r.count>>]
    /\ UNCHANGED gaFrame

\* The body of gamelist_add, to its return or to the exception it lets
\* through. ret is what the caller receives, <<>> for None: the function
\* is declared -> None and ends without a return value. printed is the
\* count of the last print ("Added {count} game(s)", or "No new entries"
\* for 0), <<>> when the function ended before it.
gamelist_add_body ==
    /\ merge_call.pc = "called"
    /\ \E w \in WriteOutcomes :
        LET r == gamelist_add(merge_call.src, lib[merge_call.root].gamelist, w)
        IN  /\ lib' = [lib EXCEPT ![merge_call.root].gamelist = r.gamelist]
            /\ merge_call' = [merge_call EXCEPT
                    !.pc = IF r.raised THEN "raised" ELSE "returned",
                    !.ret = <<>>,
                    !.printed = IF r.raised \/ merge_call.src.t # "xml" THEN <<>>
                                ELSE <<r.count>>]
    /\ UNCHANGED gaFrame

\* ------------------------------------------------------------------------
\* Downloader.fetch_repo_images, one statement per action
\* ------------------------------------------------------------------------
\* The assets named images.zip a release may list: the id and size the API
\* reports, whether the bytes at browser_download_url are a zip container,
\* and the names it extracts.
Assets ==
    [r7 |-> [id |-> 7, size |-> 1000, zip |-> TRUE, entries |-> {"a.png"}],
     r8 |-> [id |-> 8, size |-> 1000, zip |-> TRUE, entries |-> {"a.png", "c.png"}],
     r7b |-> [id |-> 7, size |-> 2000, zip |-> TRUE, entries |-> {"c.png"}],
     r9 |-> [id |-> 9, size |-> 1000, zip |-> FALSE, entries |-> {}]]

\* The text json.dump({"id": remote_id, "size": remote_size}, f) writes.
Descriptor(id, size) == JObj([id |-> id, size |-> size])
\* The items of images_dir that are directories (shutil.rmtree) and not
\* files (unlink).
is_dir(item) == item \in {"old/"}

\* images.zip holding the first n of the WriteChunks pieces of the bytes of
\* the asset a.
ImgZip(a, n) == [t |-> "zip", a |-> a, n |-> n]

\* An images_dir that mkdir has just made.
NoImages == [files |-> {}, meta |-> NoFile, zip |-> NoFile]

\* The ImageFetcher thread before fetch_repo_images is called.
NoSync == [pc |-> "idle", local_meta |-> NoData, remote |-> None, todo |-> {},
           pre |-> NoImages,
           fetched |-> FALSE, failed |-> FALSE, errors |-> FALSE]

\* What fetch_repo_images leaves alone.
imFrame == <<faults, merge_call, fd, local_md5s, fs, staging, lib, dl_queue, progress_q, download_active,
             uiVars, pc, port, kind, workLocals, data, um_pre, um_repeat, pending_install>>

\* _fetch_images(repo): worker.fetch_repo_images(repo); images_dir.mkdir.
fetch_repo_images_call ==
    /\ sync.pc \in {"idle", "done", "raised"}
    /\ sync' = [NoSync EXCEPT !.pc = "load", !.pre = images]
    /\ UNCHANGED <<images, imFrame>>

\* local_meta = {}; if metadata_path.exists(): with suppress(Exception):
\* local_meta = json.load(f)
fetch_repo_images_load ==
    /\ sync.pc = "load"
    /\ sync' = [sync EXCEPT !.pc = "query",
                            !.local_meta = IF Parsable(images.meta) THEN images.meta.v
                                           ELSE NoData]
    /\ UNCHANGED <<images, imFrame>>

\* The release query and the search for the asset named images.zip: return
\* when the query raises or the release lists no such asset.
fetch_repo_images_query ==
    /\ sync.pc = "query"
    /\ \E ok \in Outcomes("network") :
       \E a \in DOMAIN Assets \cup {None} :
        IF ok /\ a # None
        THEN sync' = [sync EXCEPT !.pc = "stale", !.remote = a]
        ELSE sync' = [sync EXCEPT !.pc = "done", !.errors = ~ok]
    /\ UNCHANGED <<images, imFrame>>

\* local_meta.get(k) == v, for a value v of the API (never None).
get_equals(m, k, v) == k \in DOMAIN m /\ m[k] = v

\* A descriptor that matches when the id alone does.
is_current_by_id(local_meta, a) == get_equals(local_meta.m, "id", Assets[a].id)
\* local_meta.get("id") == remote_id and local_meta.get("size") == remote_size
is_current(local_meta, a) ==
    /\ get_equals(local_meta.m, "id", Assets[a].id)
    /\ get_equals(local_meta.m, "size", Assets[a].size)

\* The staleness test; local_meta.get raises AttributeError when the
\* descriptor file holds JSON that is no object, outside every try.
fetch_repo_images_stale ==
    /\ sync.pc = "stale"
    /\ sync' = IF sync.local_meta.j # "obj" THEN [sync EXCEPT !.pc = "raised", !.errors = TRUE]
               ELSE IF is_current(sync.local_meta, sync.remote) THEN [sync EXCEPT !.pc = "done"]
               ELSE [sync EXCEPT !.pc = "download"]
    /\ UNCHANGED <<images, imFrame>>

\* data, _ = _gh_request(asset["browser_download_url"], timeout=60)
fetch_repo_images_download ==
    /\ sync.pc = "download"
    /\ \E ok \in Outcomes("network") :
        sync' = IF ok THEN [sync EXCEPT !.pc = "write", !.fetched = TRUE]
                ELSE [sync EXCEPT !.pc = "except", !.failed = TRUE, !.errors = TRUE]
    /\ UNCHANGED <<images, imFrame>>

\* How many of the pieces a write puts into the file before it returns or
\* raises.
Written == IF "image_io" \in faults THEN 0..WriteChunks ELSE {WriteChunks}

\* with open(img_zip, "wb") as f: f.write(data); then the items the clean-up
\* loop will visit (images_dir.iterdir()).
fetch_repo_images_write ==
    /\ sync.pc = "write"
    /\ \E opened \in Outcomes("image_io") : \E n \in Written :
        /\ images' = IF ~opened THEN images
                     ELSE [images EXCEPT !.zip = ImgZip(sync.remote, n)]
        /\ sync' = IF opened /\ n = WriteChunks
                   THEN [sync EXCEPT !.pc = "clean", !.todo = images.files]
                   ELSE [sync EXCEPT !.pc = "except", !.failed = TRUE, !.errors = TRUE]
    /\ UNCHANGED imFrame

\* One turn of the clean-up loop: shutil.rmtree(item, ignore_errors=True) on
\* a directory, item.unlink(missing_ok=True) on a file, which may raise.
fetch_repo_images_clean ==
    /\ sync.pc = "clean"
    /\ IF sync.todo = {}
       THEN sync' = [sync EXCEPT !.pc = "extract"] /\ UNCHANGED images
       ELSE \E item \in sync.todo : \E ok \in Outcomes("image_io") :
            /\ images' = IF ok THEN [images EXCEPT !.files = @ \ {item}] ELSE images
            /\ sync' = IF ok THEN [sync EXCEPT !.todo = @ \ {item}]
                       ELSE IF is_dir(item) THEN [sync EXCEPT !.todo = @ \ {item}, !.errors = TRUE]
                       ELSE [sync EXCEPT !.pc = "except", !.failed = TRUE, !.errors = TRUE]
    /\ UNCHANGED imFrame

\* The names extractall has written when it returns or raises.
Extracted(a) ==
    IF ~Assets[a].zip THEN {{}}
    ELSE IF "image_io" \in faults THEN SUBSET Assets[a].entries
    ELSE {Assets[a].entries}

\* with zipfile.ZipFile(img_zip, "r") as zf: zf.extractall(images_dir)
fetch_repo_images_extract ==
    /\ sync.pc = "extract"
    /\ \E names \in Extracted(sync.remote) :
        /\ images' = [images EXCEPT !.files = @ \cup names]
        /\ sync' = IF Assets[sync.remote].zip /\ names = Assets[sync.remote].entries
                   THEN [sync EXCEPT !.pc = "meta"]
                   ELSE [sync EXCEPT !.pc = "except", !.failed = TRUE, !.errors = TRUE]
    /\ UNCHANGED imFrame

\* with open(metadata_path, "w") as f: json.dump({...}, f)
fetch_repo_images_meta ==
    /\ sync.pc = "meta"
    /\ \E opened \in Outcomes("image_io") : \E n \in Written :
        /\ images' = IF ~opened THEN images
                     ELSE [images EXCEPT !.meta =
                            Text(Descriptor(Assets[sync.remote].id, Assets[sync.remote].size), n)]
        /\ sync' = IF opened /\ n = WriteChunks THEN [sync EXCEPT !.pc = "unlink"]
                   ELSE [sync EXCEPT !.pc = "except", !.failed = TRUE, !.errors = TRUE]
    /\ UNCHANGED imFrame

\* img_zip.unlink()
fetch_repo_images_unlink ==
    /\ sync.pc = "unlink"
    /\ \E ok \in Outcomes("image_io") :
        /\ images' = IF ok THEN [images EXCEPT !.zip = NoFile] ELSE images
        /\ sync' = IF ok THEN [sync EXCEPT !.pc = "done"]
                   ELSE [sync EXCEPT !.pc = "except", !.failed = TRUE, !.errors = TRUE]
    /\ UNCHANGED imFrame

\* except Exception: with suppress(OSError): img_zip.unlink()
fetch_repo_images_except ==
    /\ sync.pc = "except"
    /\ \E ok \in Outcomes("image_io") :
        images' = IF ok THEN [images EXCEPT !.zip = NoFile] ELSE images
    /\ sync' = [sync EXCEPT !.pc = "done"]
    /\ UNCHANGED imFrame

fetch_repo_images ==
    \/ fetch_repo_images_load
    \/ fetch_repo_images_query
    \/ fetch_repo_images_stale
    \/ fetch_repo_images_download
    \/ fetch_repo_images_write
    \/ fetch_repo_images_clean
    \/ fetch_repo_images_extract
    \/ fetch_repo_images_meta
    \/ fetch_repo_images_unlink
    \/ fetch_repo_images_except

\* ------------------------------------------------------------------------
\* Downloader.run and Downloader._run_autoinstall
\* ------------------------------------------------------------------------
\* The value None that cleanup() puts on dl_queue.
Sentinel == <<None, None>>

\* The order of sorted() on the file names: upper case before lower case.
rank(name) == CASE name = "Foo" -> 1 [] name = "bar" -> 2 [] name = "baz" -> 3 [] OTHER -> 4
RECURSIVE sorted(_)
sorted(S) ==
    IF S = {} THEN <<>>
    ELSE LET m == CHOOSE x \in S : \A y \in S : rank(x) <= rank(y)
         IN  <<m>> \o sorted(S \ {m})

\* What the run loop leaves alone besides pc and the queues.
runFrame == <<faults, sideVars, fs, staging, lib, download_active, uiVars, content, downloaded, total,
              data, um_pre, um_repeat>>

\* The head of the run loop, mutated: None is skipped like a handled request.
run_get_skips_none(t) ==
    /\ pc[t] = "get"
    /\ dl_queue # <<>>
    /\ dl_queue' = Tail(dl_queue)
    /\ IF Head(dl_queue) = Sentinel
       THEN /\ pc' = [pc EXCEPT ![t] = "check"]
            /\ UNCHANGED <<port, kind>>
       ELSE /\ pc' = [pc EXCEPT ![t] = "dl_open"]
            /\ port' = [port EXCEPT ![t] = [NoPort EXCEPT !.name = Head(dl_queue)[1]]]
            /\ kind' = [kind EXCEPT ![t] = Head(dl_queue)[2]]
    /\ UNCHANGED <<progress_q, zip_files, pending_install, result, runFrame>>

\* item = self.dl_queue.get(); if item is None: break; port, kind = item
run_get(t) ==
    /\ pc[t] = "get"
    /\ dl_queue # <<>>
    /\ dl_queue' = Tail(dl_queue)
    /\ IF Head(dl_queue) = Sentinel
       THEN /\ pc' = [pc EXCEPT ![t] = "wrapper_finally"]
            /\ UNCHANGED <<port, kind>>
       ELSE /\ pc' = [pc EXCEPT ![t] = "dl_open"]
            /\ port' = [port EXCEPT ![t] = [NoPort EXCEPT !.name = Head(dl_queue)[1]]]
            /\ kind' = [kind EXCEPT ![t] = Head(dl_queue)[2]]
    /\ UNCHANGED <<progress_q, zip_files, pending_install, result, runFrame>>

\* self.dl_queue.empty()
queue_seen_empty == dl_queue = <<>>

\* The check, mutated: the install pass runs whatever dl_queue holds.
run_check_always_installs(t) ==
    /\ pc[t] = "check"
    /\ pc' = [pc EXCEPT ![t] = "ai_glob"]
    /\ UNCHANGED <<dl_queue, progress_q, port, kind, zip_files, pending_install, result, runFrame>>

\* if self.dl_queue.empty(): self._run_autoinstall()
run_check(t) ==
    /\ pc[t] = "check"
    /\ pc' = [pc EXCEPT ![t] = IF queue_seen_empty THEN "ai_glob" ELSE "task_done"]
    /\ UNCHANGED <<dl_queue, progress_q, port, kind, zip_files, pending_install, result, runFrame>>

\* self.dl_queue.task_done()
run_task_done(t) ==
    /\ pc[t] = "task_done"
    /\ pc' = [pc EXCEPT ![t] = "get"]
    /\ UNCHANGED <<dl_queue, progress_q, port, kind, zip_files, pending_install, result, runFrame>>

\* zip_files = sorted(glob("*.zip")); if not zip_files: return; the phase event
run_autoinstall_glob(t) ==
    /\ pc[t] = "ai_glob"
    /\ LET found == sorted({n \in DOMAIN staging : staging[n] # NoZip})
       IN  IF found = <<>>
           THEN /\ pc' = [pc EXCEPT ![t] = "task_done"]
                /\ UNCHANGED <<zip_files, progress_q>>
           ELSE /\ CanPut
                /\ put_progress(PhaseEvent)
                /\ zip_files' = [zip_files EXCEPT ![t] = found]
                /\ pc' = [pc EXCEPT ![t] = "ai_next"]
    /\ UNCHANGED <<dl_queue, port, kind, pending_install, result, runFrame>>

\* The head of the for loop: the "Installing" event and the call of
\* install_zip, or the "Installation complete" event after the last file.
run_autoinstall_next(t) ==
    /\ pc[t] = "ai_next"
    /\ CanPut
    /\ IF zip_files[t] = <<>>
       THEN /\ put_progress(CompleteEvent)
            /\ pc' = [pc EXCEPT ![t] = "task_done"]
            /\ UNCHANGED pending_install
       ELSE /\ put_progress(InstallingEvent(Head(zip_files[t])))
            /\ pc' = [pc EXCEPT ![t] = "iz_isfile"]
            /\ pending_install' = pending_install \ {Head(zip_files[t])}
    /\ UNCHANGED <<dl_queue, port, kind, zip_files, result, runFrame>>

\* install_zip returned: the status event, and on to the next file (result
\* is assigned anew before it is read again).
run_autoinstall_result(t) ==
    /\ pc[t] = "iz_ret"
    /\ CanPut
    /\ put_progress(StatusEvent(Head(zip_files[t]), result[t]))
    /\ zip_files' = [zip_files EXCEPT ![t] = Tail(zip_files[t])]
    /\ result' = [result EXCEPT ![t] = 0]
    /\ pc' = [pc EXCEPT ![t] = "ai_next"]
    /\ UNCHANGED <<dl_queue, port, kind, pending_install, runFrame>>

run_autoinstall(t) ==
    \/ run_autoinstall_glob(t)
    \/ run_autoinstall_next(t)
    \/ install_zip(t)
    \/ run_autoinstall_result(t)

run(t) ==
    \/ run_get(t)
    \/ download_port(t)
    \/ run_check(t)
    \/ run_autoinstall(t)
    \/ run_task_done(t)

\* ------------------------------------------------------------------------
\* Pharos._download_wrapper and the life of a DownloaderThread
\* ------------------------------------------------------------------------
\* t.is_alive() of a thread named DownloaderThread
is_alive(t) == pc[t] \notin {"new", "dead", "killed", "idle"}
\* The thread is inside Downloader.run.
InRun(t) == is_alive(t) /\ pc[t] \notin {"crashing", "wrapper_finally", "exiting"}

wrapFrame == <<faults, sideVars, fs, staging, lib, dl_queue, progress_q, uiVars, port, kind, content,
               downloaded, total, result, data, um_pre, um_repeat, pending_install>>

\* except Exception: print the traceback
download_wrapper_except(t) ==
    /\ pc[t] = "crashing"
    /\ pc' = [pc EXCEPT ![t] = "wrapper_finally"]
    /\ zip_files' = [zip_files EXCEPT ![t] = <<>>]
    /\ UNCHANGED <<download_active, wrapFrame>>

\* finally: self.download_active = False
download_wrapper_finally(t) ==
    /\ pc[t] = "wrapper_finally"
    /\ download_active' = FALSE
    /\ pc' = [pc EXCEPT ![t] = "exiting"]
    /\ UNCHANGED <<zip_files, wrapFrame>>

\* The target has returned; the thread stops being alive.
thread_exit(t) ==
    /\ pc[t] = "exiting"
    /\ pc' = [pc EXCEPT ![t] = "dead"]
    /\ UNCHANGED <<download_active, zip_files, wrapFrame>>

download_wrapper(t) ==
    \/ run(t)
    \/ download_wrapper_except(t)
    \/ download_wrapper_finally(t)
    \/ thread_exit(t)

\* ------------------------------------------------------------------------
\* The main thread: Pharos.update, _render_ports, _update_ports,
\* _update_repos, _ensure_worker, cleanup
\* ------------------------------------------------------------------------
\* self.PROGRESS_STICKY_SECONDS
PROGRESS_STICKY_SECONDS == 2

\* The repositories of .sources with the catalog each one lists.
Repos == <<[ports |-> <<"foo", "bar">>, bottles |-> <<>>]>>
\* items = getattr(repo, "ports", None) or getattr(repo, "bottles", None)
items_of(r) == IF r.ports # <<>> THEN r.ports ELSE r.bottles
\* "port" if getattr(repo, "ports", None) else "bottle"
kind_of(r) == IF r.ports # <<>> THEN "port" ELSE "bottle"

\* What the main thread leaves alone besides its own variables and the queues.
uiFrame == <<faults, sideVars, fs, staging, lib, port, kind, workLocals, data, um_pre, um_repeat,
             pending_install>>

\* update(): the head of a frame; latest = None in the ports view.
update_frame ==
    /\ ui_pc = "frame"
    /\ ui_pc' = IF current_view = "ports" THEN "render" ELSE "keys"
    /\ latest' = NoEvent
    /\ UNCHANGED <<dl_queue, progress_q, download_active, pc, current_view, repo_idx, key_b,
                   put_idx, last_progress_msg, sticky_age, uiFrame>>

\* One turn of the loop of _render_ports, mutated: the loop ends after the
\* first event it has taken.
render_ports_get_one ==
    /\ ui_pc = "render"
    /\ IF progress_q = <<>>
       THEN /\ ui_pc' = "show"
            /\ UNCHANGED <<progress_q, latest>>
       ELSE /\ latest' = Head(progress_q)
            /\ progress_q' = Tail(progress_q)
            /\ ui_pc' = "show"
    /\ UNCHANGED <<dl_queue, download_active, pc, current_view, repo_idx, key_b, put_idx,
                   last_progress_msg, sticky_age, uiFrame>>

\* One turn of the loop of _render_ports: progress_q.get_nowait(), which
\* ends the loop when it raises queue.Empty.
render_ports_get ==
    /\ ui_pc = "render"
    /\ IF progress_q = <<>>
       THEN /\ ui_pc' = "show"
            /\ UNCHANGED <<progress_q, latest>>
       ELSE /\ latest' = Head(progress_q)
            /\ progress_q' = Tail(progress_q)
            /\ UNCHANGED ui_pc
    /\ UNCHANGED <<dl_queue, download_active, pc, current_view, repo_idx, key_b, put_idx,
                   last_progress_msg, sticky_age, uiFrame>>

\* The message is dropped only when it is older than PROGRESS_STICKY_SECONDS.
render_ports_show_late ==
    /\ ui_pc = "show"
    /\ IF latest # NoEvent
       THEN last_progress_msg' = latest /\ sticky_age' = 0
       ELSE IF last_progress_msg # NoEvent /\ sticky_age > PROGRESS_STICKY_SECONDS
       THEN last_progress_msg' = NoEvent /\ UNCHANGED sticky_age
       ELSE UNCHANGED <<last_progress_msg, sticky_age>>
    /\ latest' = NoEvent
    /\ ui_pc' = "keys"
    /\ UNCHANGED <<dl_queue, progress_q, download_active, pc, current_view, repo_idx, key_b,
                   put_idx, uiFrame>>

\* The sticky message: the latest event and the time, or the message is
\* dropped once it is PROGRESS_STICKY_SECONDS old.
render_ports_show ==
    /\ ui_pc = "show"
    /\ IF latest # NoEvent
       THEN last_progress_msg' = latest /\ sticky_age' = 0
       ELSE IF last_progress_msg # NoEvent /\ sticky_age >= PROGRESS_STICKY_SECONDS
       THEN last_progress_msg' = NoEvent /\ UNCHANGED sticky_age
       ELSE UNCHANGED <<last_progress_msg, sticky_age>>
    /\ latest' = NoEvent
    /\ ui_pc' = "keys"
    /\ UNCHANGED <<dl_queue, progress_q, download_active, pc, current_view, repo_idx, key_b,
                   put_idx, uiFrame>>

\* A second passes. The age is read only while a message is kept, and only
\* compared with PROGRESS_STICKY_SECONDS: it is not counted otherwise.
Tick ==
    /\ ui_pc \notin {"off", "exited"}
    /\ last_progress_msg # NoEvent
    /\ sticky_age < PROGRESS_STICKY_SECONDS
    /\ sticky_age' = sticky_age + 1
    /\ UNCHANGED <<dl_queue, progress_q, download_active, pc, ui_pc, current_view, repo_idx,
                   key_b, put_idx, latest, last_progress_msg, uiFrame>>

\* _update_repos: A opens the selected repository, B leaves the main loop,
\* after which main() calls cleanup().
update_repos ==
    /\ ui_pc = "keys" /\ current_view = "repos"
    /\ \E key \in {"a", "b", "none"} :
        \/ /\ key = "a"
           /\ \E i \in DOMAIN Repos : repo_idx' = i
           /\ current_view' = "ports"
           /\ ui_pc' = "frame"
        \/ /\ key = "b"
           /\ ui_pc' = "cl_put"
           /\ UNCHANGED <<current_view, repo_idx>>
        \/ /\ key = "none"
           /\ ui_pc' = "frame"
           /\ UNCHANGED <<current_view, repo_idx>>
    /\ UNCHANGED <<dl_queue, progress_q, download_active, pc, key_b, put_idx, latest,
                   last_progress_msg, sticky_age, uiFrame>>

\* _update_ports, the keys: A puts the selected item and calls
\* _ensure_worker, Y starts the loop that puts every item, B alone goes
\* back to the repositories and drains dl_queue.
update_ports_keys ==
    /\ ui_pc = "keys" /\ current_view = "ports"
    /\ LET items == items_of(Repos[repo_idx])
       IN  \E key \in {"a", "y", "none"}, b \in BOOLEAN :
            \/ /\ key = "a"
               /\ Len(dl_queue) < MaxQueue
               /\ \E port_idx \in DOMAIN items :
                    dl_queue' = Append(dl_queue, <<items[port_idx], kind_of(Repos[repo_idx])>>)
               /\ key_b' = b
               /\ ui_pc' = "ew_flag"
               /\ UNCHANGED <<current_view, put_idx>>
            \/ /\ key = "y"
               /\ Len(dl_queue) + Len(items) <= MaxQueue
               /\ key_b' = b
               /\ put_idx' = 0
               /\ ui_pc' = "put_all"
               /\ UNCHANGED <<dl_queue, current_view>>
            \/ /\ key = "none"
               /\ ui_pc' = IF b THEN "drain" ELSE "frame"
               /\ current_view' = IF b THEN "repos" ELSE current_view
               /\ UNCHANGED <<dl_queue, key_b, put_idx>>
    /\ UNCHANGED <<progress_q, download_active, pc, repo_idx, latest, last_progress_msg,
                   sticky_age, uiFrame>>

\* for item in items: self.dl_queue.put((item, kind)), one put per step
update_ports_put_all ==
    /\ ui_pc = "put_all"
    /\ LET items == items_of(Repos[repo_idx])
       IN  /\ dl_queue' = Append(dl_queue, <<items[put_idx + 1], kind_of(Repos[repo_idx])>>)
           /\ IF put_idx + 1 = Len(items)
              THEN ui_pc' = "ew_flag" /\ put_idx' = 0
              ELSE ui_pc' = "put_all" /\ put_idx' = put_idx + 1
    /\ UNCHANGED <<progress_q, download_active, pc, current_view, repo_idx, key_b, latest,
                   last_progress_msg, sticky_age, uiFrame>>

\* _ensure_worker returns into _update_ports: if the Back key is down as
\* well, back to the repositories and on to the drain.
ensure_worker_return ==
    /\ ui_pc' = IF key_b THEN "drain" ELSE "frame"
    /\ current_view' = IF key_b THEN "repos" ELSE current_view
    /\ key_b' = FALSE

\* if self.download_active: return
ensure_worker_flag ==
    /\ ui_pc = "ew_flag"
    /\ IF download_active
       THEN ensure_worker_return
       ELSE ui_pc' = "ew_enum" /\ UNCHANGED <<current_view, key_b>>
    /\ UNCHANGED <<dl_queue, progress_q, download_active, pc, repo_idx, put_idx, latest,
                   last_progress_msg, sticky_age, uiFrame>>

\* if any(t.name == "DownloaderThread" and t.is_alive() ...): return
ensure_worker_enum ==
    /\ ui_pc = "ew_enum"
    /\ IF \E t \in Threads : is_alive(t)
       THEN ensure_worker_return
       ELSE ui_pc' = "ew_set" /\ UNCHANGED <<current_view, key_b>>
    /\ UNCHANGED <<dl_queue, progress_q, download_active, pc, repo_idx, put_idx, latest,
                   last_progress_msg, sticky_age, uiFrame>>

\* self.download_active = True
ensure_worker_set ==
    /\ ui_pc = "ew_set"
    /\ download_active' = TRUE
    /\ ui_pc' = "ew_start"
    /\ UNCHANGED <<dl_queue, progress_q, pc, current_view, repo_idx, key_b, put_idx, latest,
                   last_progress_msg, sticky_age, uiFrame>>

\* worker = Downloader(...); t = threading.Thread(...); t.start()
ensure_worker_start ==
    /\ ui_pc = "ew_start"
    /\ \E t \in Threads :
        /\ pc[t] = "new"
        /\ \A u \in Threads : pc[u] = "new" => t <= u
        /\ pc' = [pc EXCEPT ![t] = "get"]
    /\ ensure_worker_return
    /\ UNCHANGED <<dl_queue, progress_q, download_active, repo_idx, put_idx, latest,
                   last_progress_msg, sticky_age, uiFrame>>

\* A thread is started on every call, whatever the flag and the threads are.
ensure_worker_unguarded ==
    /\ ui_pc \in {"ew_flag", "ew_enum", "ew_set", "ew_start"}
    /\ download_active' = TRUE
    /\ \E t \in Threads :
        /\ pc[t] = "new"
        /\ \A u \in Threads : pc[u] = "new" => t <= u
        /\ pc' = [pc EXCEPT ![t] = "get"]
    /\ ensure_worker_return
    /\ UNCHANGED <<dl_queue, progress_q, repo_idx, put_idx, latest,
                   last_progress_msg, sticky_age, uiFrame>>

ensure_worker ==
    \/ ensure_worker_flag
    \/ ensure_worker_enum
    \/ ensure_worker_set
    \/ ensure_worker_start

\* The drain, mutated: taking a request away also ends the transfers that
\* are streaming.
update_ports_drain_interrupts ==
    /\ ui_pc = "drain"
    /\ IF dl_queue = <<>>
       THEN ui_pc' = "frame" /\ UNCHANGED <<dl_queue, pc>>
       ELSE /\ dl_queue' = Tail(dl_queue) /\ UNCHANGED ui_pc
            /\ pc' = [t \in Threads |->
                        IF pc[t] \in {"dl_open", "dl_create", "dl_read"} THEN "dl_except" ELSE pc[t]]
    /\ UNCHANGED <<progress_q, download_active, current_view, repo_idx, key_b, put_idx,
                   latest, last_progress_msg, sticky_age, uiFrame>>

\* while not self.dl_queue.empty(): self.dl_queue.get_nowait()
update_ports_drain ==
    /\ ui_pc = "drain"
    /\ IF dl_queue = <<>>
       THEN ui_pc' = "frame" /\ UNCHANGED dl_queue
       ELSE dl_queue' = Tail(dl_queue) /\ UNCHANGED ui_pc
    /\ UNCHANGED <<progress_q, download_active, pc, current_view, repo_idx, key_b, put_idx,
                   latest, last_progress_msg, sticky_age, uiFrame>>

\* The head of cleanup(), mutated: nothing is put on dl_queue.
cleanup_put_nothing ==
    /\ ui_pc = "cl_put"
    /\ ui_pc' = "cl_wait"
    /\ UNCHANGED <<dl_queue, progress_q, download_active, pc, current_view, repo_idx, key_b,
                   put_idx, latest, last_progress_msg, sticky_age, uiFrame>>

\* cleanup(): self.running = False; self.dl_queue.put(None)
cleanup_put ==
    /\ ui_pc = "cl_put"
    /\ dl_queue' = Append(dl_queue, Sentinel)
    /\ ui_pc' = "cl_wait"
    /\ UNCHANGED <<progress_q, download_active, pc, current_view, repo_idx, key_b, put_idx,
                   latest, last_progress_msg, sticky_age, uiFrame>>

\* The wait of at most five seconds for the threads: it ends when none is
\* alive, or when the deadline has passed.
cleanup_wait ==
    /\ ui_pc = "cl_wait"
    /\ \E deadline_passed \in BOOLEAN :
        deadline_passed \/ ~\E t \in Threads : is_alive(t)
    /\ ui_pc' = "cl_drain_dl"
    /\ UNCHANGED <<dl_queue, progress_q, download_active, pc, current_view, repo_idx, key_b,
                   put_idx, latest, last_progress_msg, sticky_age, uiFrame>>

\* The drain of dl_queue: get_nowait() until queue.Empty
cleanup_drain_dl ==
    /\ ui_pc = "cl_drain_dl"
    /\ IF dl_queue = <<>>
       THEN ui_pc' = "cl_drain_pq" /\ UNCHANGED dl_queue
       ELSE dl_queue' = Tail(dl_queue) /\ UNCHANGED ui_pc
    /\ UNCHANGED <<progress_q, download_active, pc, current_view, repo_idx, key_b, put_idx,
                   latest, last_progress_msg, sticky_age, uiFrame>>

\* The drain of progress_q, then the rest of cleanup and os._exit(0), which
\* ends the daemon threads where they are.
cleanup_drain_pq ==
    /\ ui_pc = "cl_drain_pq"
    /\ IF progress_q = <<>>
       THEN /\ ui_pc' = "exited"
            /\ pc' = [t \in Threads |-> IF is_alive(t) THEN "killed" ELSE pc[t]]
            /\ UNCHANGED progress_q
       ELSE /\ progress_q' = Tail(progress_q)
            /\ UNCHANGED <<ui_pc, pc>>
    /\ UNCHANGED <<dl_queue, download_active, current_view, repo_idx, key_b, put_idx,
                   latest, last_progress_msg, sticky_age, uiFrame>>

cleanup ==
    \/ cleanup_put
    \/ cleanup_wait
    \/ cleanup_drain_dl
    \/ cleanup_drain_pq

\* One step of the main thread.
main_thread ==
    \/ update_frame
    \/ render_ports_get
    \/ render_ports_show
    \/ update_repos
    \/ update_ports_keys
    \/ update_ports_put_all
    \/ ensure_worker
    \/ update_ports_drain
    \/ cleanup


\* ------------------------------------------------------------------------
\* Initial values
\* ------------------------------------------------------------------------
\* The directories are empty and no gamelist.xml exists.
EmptyLib == [r \in {"ports", "windows"} |-> [files |-> {}, gamelist |-> NoFile]]

\* A process that has just been constructed (Pharos.__init__), its main
\* thread at ui0, its threads at the statements pcs and dl_queue holding q0.
InitProcess(ui0, pcs, q0) ==
    /\ dl_queue = q0
    /\ progress_q = <<>>
    /\ download_active = FALSE
    /\ ui_pc = ui0
    /\ current_view = "repos"
    /\ repo_idx = 1
    /\ key_b = FALSE
    /\ put_idx = 0
    /\ latest = NoEvent
    /\ pending_install = {}
    /\ last_progress_msg = NoEvent
    /\ sticky_age = 0
    /\ pc = pcs
    /\ port = [t \in Threads |-> NoPort]
    /\ kind = [t \in Threads |-> None]
    /\ content = [t \in Threads |-> None]
    /\ downloaded = [t \in Threads |-> 0]
    /\ total = [t \in Threads |-> 0]
    /\ zip_files = [t \in Threads |-> <<>>]
    /\ result = [t \in Threads |-> 0]
    /\ data = [t \in Threads |-> NoData]
    /\ um_pre = [t \in Threads |-> NoFile]
    /\ um_repeat = [t \in Threads |-> FALSE]
    /\ merge_call = NoMerge
    /\ sync = NoSync
    /\ fd = [t \in Threads |-> NoFd]
    /\ local_md5s = load_local_md5s(fs.manifest)

\* ------------------------------------------------------------------------
\* SpecLedger: the ledger alone
\* ------------------------------------------------------------------------
\* Ledger files the program can find at start: none, an unparsable one, a
\* parsable one that is no object, and documents _update_manifest wrote.
InitialManifests ==
    {NoFile, Garbage, Text(JList, WriteChunks),
     Text(JObj(EmptyManifest), WriteChunks),
     Text(JObj([ports |-> <<PortRecord("foo", "c1")>>]), WriteChunks),
     Text(JObj([ports |-> <<PortRecord("bar", "c1"), PortRecord("Foo", "c2"),
                            PortRecord("baz", "c1")>>,
                bottles |-> <<PortRecord("foo", "c1")>>]), WriteChunks)}

InitLedger ==
    /\ faults = {"ledger_io"}
    /\ fs \in {[manifest |-> f, tmp |-> NoFile] : f \in InitialManifests}
    /\ images = NoImages
    /\ staging = [n \in PortNames |-> NoZip]
    /\ lib = EmptyLib
    /\ InitProcess("off", [t \in Threads |-> "idle"], <<>>)

\* self._update_manifest(port, kind) after a transfer of the bytes c.
LedgerCall(t, name, c, k) ==
    /\ pc[t] \in {"idle", "um_done", "um_failed", "um_raised"}
    /\ um_repeat' = [um_repeat EXCEPT ![t] =
            pc[t] = "um_done" /\ port[t] = PortRecord(name, c) /\ kind[t] = k]
    /\ enter_update_manifest(t, PortRecord(name, c), k)
    /\ UNCHANGED <<faults, sideVars, fs, staging, lib, dl_queue, progress_q, download_active,
                   uiVars, workLocals, data, pending_install>>

\* The process dies inside _update_manifest; the files stay as they are.
LedgerCrash(t) ==
    /\ InUpdateManifest(t)
    /\ pc' = [pc EXCEPT ![t] = "crashed"]
    /\ data' = [data EXCEPT ![t] = NoData]
    /\ fd' = [fd EXCEPT ![t] = NoFd]
    /\ UNCHANGED <<fs, umFileFrame>>

\* The program is started again and calls _update_manifest.
LedgerRestart(t) ==
    /\ pc[t] = "crashed"
    /\ pc' = [pc EXCEPT ![t] = "idle"]
    /\ port' = [port EXCEPT ![t] = NoPort]
    /\ kind' = [kind EXCEPT ![t] = None]
    /\ um_pre' = [um_pre EXCEPT ![t] = NoFile]
    /\ um_repeat' = [um_repeat EXCEPT ![t] = FALSE]
    /\ UNCHANGED <<faults, sideVars, fs, staging, lib, dl_queue, progress_q, download_active,
                   uiVars, workLocals, data, pending_install>>

NextLedger ==
    \/ \E name \in PortNames, c \in Served, k \in Kinds : LedgerCall(1, name, c, k)
    \/ update_manifest(1)
    \/ LedgerCrash(1)
    \/ LedgerRestart(1)

SpecLedger == InitLedger /\ [][NextLedger]_vars

\* ------------------------------------------------------------------------
\* SpecWriters: two callers of _update_manifest at once, no I/O failures
\* ------------------------------------------------------------------------
InitWriters ==
    /\ faults = {}
    /\ fs \in {[manifest |-> f, tmp |-> NoFile] :
                f \in {NoFile, Text(JObj([ports |-> <<PortRecord("Foo", "c2")>>,
                                          bottles |-> <<>>]), WriteChunks)}}
    /\ images = NoImages
    /\ staging = [n \in PortNames |-> NoZip]
    /\ lib = EmptyLib
    /\ InitProcess("off", [t \in Threads |-> "idle"], <<>>)

\* Thread 1 records "foo" and thread 2 records "bar", again and again.
NextWriters ==
    \/ LedgerCall(1, "foo", "c1", "port")
    \/ LedgerCall(2, "bar", "c2", "port")
    \/ \E t \in Threads : update_manifest(t)

SpecWriters == InitWriters /\ [][NextWriters]_vars

\* ------------------------------------------------------------------------
\* Spec: the main thread and the download workers
\* ------------------------------------------------------------------------
\* Time does not pass in Spec (Tick is no step of it): a sticky message is
\* replaced by a newer one and never grows old.
\* The failure classes of the environment; a run of Spec suffers one of them.
FaultClasses == {{"transfer"}, {"ledger_io"}, {"unlink"}}

Init ==
    /\ faults \in FaultClasses
    /\ fs = [manifest |-> NoFile, tmp |-> NoFile]
    /\ images = NoImages
    /\ staging = [n \in PortNames |-> NoZip]
    /\ lib = EmptyLib
    /\ InitProcess("frame", [t \in Threads |-> "new"], <<>>)

Next ==
    \/ main_thread
    \/ \E t \in Threads : download_wrapper(t)

Spec == Init /\ [][Next]_vars

\* ------------------------------------------------------------------------
\* SpecTransfer: one worker in Downloader.run, the main thread idle
\* ------------------------------------------------------------------------
\* The requests the catalogs give rise to: (port, kind).
Requests == {<<"foo", "port">>, <<"bar", "port">>, <<"Foo", "bottle">>}
\* dl_queue as the main thread has left it: one to MaxQueue requests.
RECURSIVE QueuesOfLen(_)
QueuesOfLen(n) ==
    IF n = 0 THEN {<<>>}
    ELSE {Append(q, r) : q \in QueuesOfLen(n - 1), r \in Requests}
InitialQueues == UNION {QueuesOfLen(n) : n \in 1..MaxQueue}

\* Ledger files a transfer can find: none, an unparsable one, a parsable one
\* that is no object, and a document holding a record of "Foo".
TransferManifests ==
    {NoFile, Garbage, Text(JList, WriteChunks),
     Text(JObj([ports |-> <<PortRecord("Foo", "c2")>>, bottles |-> <<>>]), WriteChunks)}

\* A run of SpecTransfer suffers failing transfers or failing ledger writes.
TransferFaultClasses == {{"transfer", "no_length"}, {"ledger_io"}}

InitTransfer ==
    /\ faults \in TransferFaultClasses
    /\ fs \in {[manifest |-> f, tmp |-> NoFile] : f \in TransferManifests}
    /\ images = NoImages
    /\ staging = [n \in PortNames |-> NoZip]
    /\ lib = EmptyLib
    /\ \E q \in InitialQueues :
        InitProcess("off", [t \in Threads |-> IF t = 1 THEN "get" ELSE "new"], q)

NextTransfer == run(1)

\* The thread runs whenever it can: it is the only one that is runnable.
SpecTransfer == InitTransfer /\ [][NextTransfer]_vars /\ WF_vars(NextTransfer)

\* ------------------------------------------------------------------------
\* SpecInstall: one caller of install_zip
\* ------------------------------------------------------------------------
\* What the staging directory may hold: a valid port archive, an archive
\* without a descriptor, a bottle archive, a bottle archive whose
\* gameinfo.xml does not parse, and a file cut short.
InitialStagings ==
    {[n \in PortNames |-> CASE n = "foo" -> foo [] n = "bar" -> bar [] OTHER -> other] :
        foo \in {Zip("c1", 1), Zip("c1", 0)}, bar \in {Zip("c2", 2), NoZip},
        other \in {Zip("c3", 1), Zip("c4", 1)}}

\* What gamelist.xml of a library root may be when install_zip is called.
InitialGamelists ==
    {NoFile, Garbage, Dir,
     Xml("gameList", <<Game("./foo", "old")>>),
     Xml("gamelist", <<Game("./other", "o"), Game(NoPath, "n")>>)}

InstallFaultClasses == {{"extract"}, {"index_io"}, {"unlink"}}

InitInstall ==
    /\ faults \in InstallFaultClasses
    /\ fs = [manifest |-> NoFile, tmp |-> NoFile]
    /\ images = NoImages
    /\ staging \in InitialStagings
    /\ \E gl \in InitialGamelists :
        lib = [r \in {"ports", "windows"} |-> [files |-> {}, gamelist |-> gl]]
    /\ InitProcess("off", [t \in Threads |-> "idle"], <<>>)

\* installer.install_zip(name), after the previous call has returned or
\* raised.
InstallCall(t, name) ==
    /\ pc[t] \in {"idle", "iz_ret", "crashing"}
    /\ zip_files' = [zip_files EXCEPT ![t] = <<name>>]
    /\ result' = [result EXCEPT ![t] = 0]
    /\ pc' = [pc EXCEPT ![t] = "iz_isfile"]
    /\ UNCHANGED <<faults, sideVars, fs, staging, lib, dl_queue, progress_q, download_active, uiVars,
                   port, kind, content, downloaded, total, data, um_pre, um_repeat,
                   pending_install>>

NextInstall ==
    \/ \E name \in PortNames : InstallCall(1, name)
    \/ install_zip(1)

SpecInstall == InitInstall /\ [][NextInstall]_vars

\* ------------------------------------------------------------------------
\* SpecKinds: the worker of SpecTransfer with one request of any package
\* under any kind
\* ------------------------------------------------------------------------
InitKinds ==
    /\ faults \in TransferFaultClasses
    /\ fs \in {[manifest |-> f, tmp |-> NoFile] : f \in TransferManifests}
    /\ images = NoImages
    /\ staging = [n \in PortNames |-> NoZip]
    /\ lib = EmptyLib
    /\ \E name \in PortNames, k \in Kinds :
        InitProcess("off", [t \in Threads |-> IF t = 1 THEN "get" ELSE "new"], <<<<name, k>>>>)

NextKinds == run(1)

SpecKinds == InitKinds /\ [][NextKinds]_vars

\* ------------------------------------------------------------------------
\* SpecPass: one worker from the check that follows a transfer, dl_queue
\* empty, through an install pass to the next get() or the end of its thread
\* ------------------------------------------------------------------------
InitPass ==
    /\ faults \in InstallFaultClasses
    /\ fs = [manifest |-> NoFile, tmp |-> NoFile]
    /\ images = NoImages
    /\ staging \in InitialStagings
    /\ \E gl \in InitialGamelists :
        lib = [r \in {"ports", "windows"} |-> [files |-> {}, gamelist |-> gl]]
    /\ InitProcess("off", [t \in Threads |-> IF t = 1 THEN "check" ELSE "new"], <<>>)

NextPass ==
    \/ run_check(1)
    \/ run_autoinstall(1)
    \/ run_task_done(1)
    \/ download_wrapper_except(1)
    \/ download_wrapper_finally(1)
    \/ thread_exit(1)

SpecPass == InitPass /\ [][NextPass]_vars

\* ------------------------------------------------------------------------
\* SpecMerge: gamelist_add on any index and any source document
\* ------------------------------------------------------------------------
\* Number of <game> elements a source document holds at most.
MaxEntries == 2

\* The <game> elements of the source documents: two with the same <path>,
\* one with another, one without a <path>.
SourceGames == {Game("./foo", "s1"), Game("./foo", "s2"), Game("./bar", "s1"),
                Game(NoPath, "s1")}
RECURSIVE SeqsOfLen(_, _)
SeqsOfLen(S, n) ==
    IF n = 0 THEN {<<>>}
    ELSE {Append(q, x) : q \in SeqsOfLen(S, n - 1), x \in S}
\* What gameinfo.xml may be: unparsable, or a document of up to MaxEntries
\* games.
SourceDocuments ==
    {Garbage} \cup {Xml("gameList", g) : g \in UNION {SeqsOfLen(SourceGames, n) : n \in 0..MaxEntries}}

\* What gamelist.xml may be when gamelist_add is called: absent, empty,
\* unparsable, a document of this program, one of another root tag, one
\* whose games repeat a path or lack one.
InitialIndexes ==
    {NoFile, Garbage, Xml("gameList", <<>>),
     Xml("gameList", <<Game("./bar", "old"), Game("./foo", "old")>>),
     Xml("Games", <<Game("./foo", "old")>>),
     Xml("gameList", <<Game("./foo", "old"), Game(NoPath, "old"), Game("./foo", "dup")>>)}

InitMerge ==
    /\ faults = {}
    /\ fs = [manifest |-> NoFile, tmp |-> NoFile]
    /\ staging = [n \in PortNames |-> NoZip]
    /\ images = NoImages
    /\ \E gl \in InitialIndexes :
        lib = [r \in {"ports", "windows"} |-> [files |-> {}, gamelist |-> gl]]
    /\ InitProcess("off", [t \in Threads |-> "idle"], <<>>)

NextMerge ==
    \/ \E src \in SourceDocuments : gamelist_add_call("ports", src)
    \/ gamelist_add_body

SpecMerge == InitMerge /\ [][NextMerge]_vars

\* ------------------------------------------------------------------------
\* SpecIndex: installs and direct merges on a library that starts without
\* an index or with an empty one
\* ------------------------------------------------------------------------
InitIndex ==
    /\ faults = {}
    /\ fs = [manifest |-> NoFile, tmp |-> NoFile]
    /\ images = NoImages
    /\ staging = [n \in PortNames |->
                    CASE n = "foo" -> Zip("c1", 1) [] n = "bar" -> Zip("c2", 2)
                      [] OTHER -> Zip("c4", 1)]
    /\ \E gl \in {NoFile, Xml("gameList", <<>>)} :
        lib = [r \in {"ports", "windows"} |-> [files |-> {}, gamelist |-> gl]]
    /\ InitProcess("off", [t \in Threads |-> "idle"], <<>>)

NextIndex ==
    \/ \E src \in SourceDocuments : gamelist_add_call("ports", src)
    \/ gamelist_add_body
    \/ \E name \in PortNames : InstallCall(1, name)
    \/ install_zip(1)

SpecIndex == InitIndex /\ [][NextIndex]_vars

\* ------------------------------------------------------------------------
\* SpecSticky: the worker of SpecTransfer, the render passes of the main
\* thread in the ports view, and the passing of time
\* ------------------------------------------------------------------------
InitSticky ==
    /\ faults \in TransferFaultClasses
    /\ fs \in {[manifest |-> f, tmp |-> NoFile] : f \in TransferManifests}
    /\ images = NoImages
    /\ staging = [n \in PortNames |-> NoZip]
    /\ lib = EmptyLib
    /\ \E q \in InitialQueues :
        InitProcess("frame", [t \in Threads |-> IF t = 1 THEN "get" ELSE "new"], q)

\* A frame of the repositories view in which A is pressed.
open_repository == update_repos /\ current_view' = "ports"
\* A frame of the ports view in which no key is down.
no_key == update_ports_keys /\ ui_pc' = "frame"

NextSticky ==
    \/ run(1)
    \/ update_frame
    \/ open_repository
    \/ render_ports_get
    \/ render_ports_show
    \/ no_key
    \/ Tick

SpecSticky == InitSticky /\ [][NextSticky]_vars

\* ------------------------------------------------------------------------
\* SpecImages: one ImageFetcher thread on the images_dir of its repository
\* ------------------------------------------------------------------------
\* What images.json may be at the call: absent, unparsable, JSON that is no
\* object, and descriptors fetch_repo_images wrote.
InitialDescriptors ==
    {NoFile, Garbage, Text(JList, WriteChunks),
     Text(Descriptor(7, 1000), WriteChunks), Text(Descriptor(8, 1000), WriteChunks)}

ImageFaultClasses == {{}, {"network"}, {"image_io"}}

InitImages ==
    /\ faults \in ImageFaultClasses
    /\ fs = [manifest |-> NoFile, tmp |-> NoFile]
    /\ staging = [n \in PortNames |-> NoZip]
    /\ lib = EmptyLib
    /\ \E f \in SUBSET {"a.png", "b.png", "old/"} : \E m \in InitialDescriptors :
        images = [files |-> f, meta |-> m, zip |-> NoFile]
    /\ InitProcess("off", [t \in Threads |-> "idle"], <<>>)

NextImages ==
    \/ fetch_repo_images_call
    \/ fetch_repo_images

SpecImages == InitImages /\ [][NextImages]_vars

\* ------------------------------------------------------------------------
\* SpecSentinel: one worker in _download_wrapper, dl_queue holding None
\* among the requests, the main thread putting nothing more
\* ------------------------------------------------------------------------
\* dl_queue at most MaxQueue requests long, and the same with None behind
\* them and ahead of at most one more request.
SentinelQueues ==
    LET ahead == UNION {QueuesOfLen(n) : n \in 0..MaxQueue}
    IN  ahead \cup {a \o <<Sentinel>> \o b : a \in ahead, b \in QueuesOfLen(0) \cup QueuesOfLen(1)}

InitSentinel ==
    /\ faults \in TransferFaultClasses
    /\ fs \in {[manifest |-> f, tmp |-> NoFile] : f \in TransferManifests}
    /\ images = NoImages
    /\ staging = [n \in PortNames |-> NoZip]
    /\ lib = EmptyLib
    /\ \E q \in SentinelQueues :
        InitProcess("off", [t \in Threads |-> IF t = 1 THEN "get" ELSE "new"], q)

\* self.dl_queue.put(None) of cleanup(), at any moment of the worker's run;
\* the rest of the main thread is left out.
put_none ==
    /\ ui_pc = "off"
    /\ InRun(1)
    /\ \A i \in 1..Len(dl_queue) : dl_queue[i] # Sentinel
    /\ dl_queue' = Append(dl_queue, Sentinel)
    /\ UNCHANGED <<progress_q, download_active, pc, uiVars, uiFrame>>

NextSentinel ==
    \/ put_none
    \/ run(1)
    \/ download_wrapper_finally(1)
    \/ thread_exit(1)

SpecSentinel == InitSentinel /\ [][NextSentinel]_vars /\ WF_vars(NextSentinel)

\* ------------------------------------------------------------------------
\* Claims about the ledger (checked under SpecLedger)
\* ------------------------------------------------------------------------
\* The document a call of _update_manifest that entered with the ledger file
\* `pre` is to leave in it.
PostManifest(pre, p, k) == Text(JObj(merge_manifest(load_manifest(pre).m, p, k)), WriteChunks)

\* The names of the records of a partition, lower-cased, in order.
LowerNames(recs) == [i \in DOMAIN recs |-> lower(recs[i].name)]
NoDuplicate(seq) == \A i, j \in DOMAIN seq : seq[i] = seq[j] => i = j
OtherThan(recs, name) == SelectSeq(recs, LAMBDA d : lower(d.name) # lower(name))

\* C3: while a call of _update_manifest is in progress, and after the process
\* crashed at any statement of it, the live ledger file holds exactly the
\* document it held when the call began or exactly the complete document the
\* call writes; a parsable ledger never becomes empty, truncated or unparsable.
C3_AtomicLedgerWrite ==
    \A t \in Threads :
        (InUpdateManifest(t) \/ pc[t] = "crashed") =>
            /\ \/ fs.manifest = um_pre[t]
               \/ /\ load_manifest(um_pre[t]).j = "obj"
                  /\ fs.manifest = PostManifest(um_pre[t], port[t], kind[t])
            /\ Parsable(um_pre[t]) => Parsable(fs.manifest)

\* C3 witness: the process crashed with a partly written temp file beside a
\* parsable ledger.
C3_Witness ==
    /\ pc[1] = "crashed"
    /\ Exists(fs.tmp) /\ ~Parsable(fs.tmp)
    /\ Parsable(um_pre[1])
    /\ fs.manifest = um_pre[1]

\* C4: each partition of the on-disk ledger holds at most one record per
\* case-insensitive package name.
C4_OneRecordPerName ==
    (Parsable(fs.manifest) /\ fs.manifest.v.j = "obj") =>
        \A k \in DOMAIN fs.manifest.v.m : NoDuplicate(LowerNames(fs.manifest.v.m[k]))

\* C4 witness: "foo" was recorded as a port into a ledger whose port partition
\* held "Foo"; the partition now holds "foo" and no "Foo".
C4_Witness ==
    /\ pc[1] = "um_done"
    /\ port[1].name = "foo" /\ kind[1] = "port"
    /\ Parsable(um_pre[1]) /\ um_pre[1].v.j = "obj"
    /\ \E i \in DOMAIN dict_get(um_pre[1].v.m, "ports") : um_pre[1].v.m.ports[i].name = "Foo"
    /\ \E i \in DOMAIN fs.manifest.v.m.ports : fs.manifest.v.m.ports[i].name = "foo"
    /\ \A i \in DOMAIN fs.manifest.v.m.ports : fs.manifest.v.m.ports[i].name # "Foo"

\* C5: a call that repeats the package and kind of the call that returned
\* just before it leaves the ledger document as that call left it, with
\* exactly one record of that name in the kind's partition.
C5_RecordIdempotent ==
    \A t \in Threads :
        (pc[t] = "um_done" /\ um_repeat[t]) =>
            /\ fs.manifest = um_pre[t]
            /\ Len(SelectSeq(fs.manifest.v.m[manifest_key(kind[t])],
                             LAMBDA d : lower(d.name) = lower(port[t].name))) = 1

\* C5 witness: the same package was recorded for the same kind twice in a row.
C5_Witness ==
    /\ pc[1] = "um_done" /\ um_repeat[1]
    /\ Len(fs.manifest.v.m[manifest_key(kind[1])]) > 1

\* C6: a call that returned normally left the other kind's partition as it
\* was, and left the records of the target partition whose name does not
\* match the package name case-insensitively as they were, in the same order.
C6_RecordFrame ==
    \A t \in Threads :
        pc[t] = "um_done" =>
            LET pre == load_manifest(um_pre[t]).m
                post == fs.manifest.v.m
                key == manifest_key(kind[t])
                other_key == manifest_other_key(kind[t])
            IN  /\ post[other_key] = dict_get(pre, other_key)
                /\ OtherThan(post[key], port[t].name) = OtherThan(dict_get(pre, key), port[t].name)

\* C6 witness: the call replaced a record among two others of its partition,
\* and the other partition is not empty.
C6_Witness ==
    /\ pc[1] = "um_done"
    /\ Parsable(um_pre[1]) /\ um_pre[1].v.j = "obj"
    /\ Len(dict_get(um_pre[1].v.m, manifest_other_key(kind[1]))) > 0
    /\ Len(OtherThan(dict_get(um_pre[1].v.m, manifest_key(kind[1])), port[1].name)) = 2
    /\ Len(dict_get(um_pre[1].v.m, manifest_key(kind[1]))) = 3

\* ------------------------------------------------------------------------
\* Claims about the workers and the main thread (checked under Spec)
\* ------------------------------------------------------------------------
\* C1: under every interleaving of the main thread's submits (put, then
\* _ensure_worker) with the start, run, crash, exit and flag reset of the
\* DownloaderThread objects, at most one thread is inside Downloader.run,
\* consuming dl_queue.
C1_SingleConsumer == Cardinality({t \in Threads : InRun(t)}) <= 1

\* C1 witness: the first worker crashed and ended, a second one is inside run,
\* and the main thread is in _ensure_worker again after another put.
C1_Witness ==
    /\ pc[1] = "dead" /\ InRun(2)
    /\ ui_pc = "ew_flag" /\ download_active

\* The main thread is between two handlers and has not begun cleanup().
MainThreadIdle == ui_pc \in {"frame", "render", "show", "keys"}

\* C2: once the worker has no request left to handle (it waits in get() on an
\* empty dl_queue while the main thread neither submits nor shuts down), every
\* archive a successful transfer staged has been given to an install pass.
C2_InstallsAfterDownloads ==
    \A t \in Threads :
        (pc[t] = "get" /\ dl_queue = <<>> /\ MainThreadIdle) => pending_install = {}

HasRecord(f, k, name, z) ==
    /\ Parsable(f) /\ f.v.j = "obj"
    /\ z # NoZip /\ z.n = st_size(z.c)
    /\ \E i \in DOMAIN dict_get(f.v.m, manifest_key(k)) :
        LET d == f.v.m[manifest_key(k)][i]
        IN  d.name = name /\ d.md5 = md5_hash(z.c) /\ d.size = st_size(z.c)

\* The thread is in _run_autoinstall.
InInstallPass(t) ==
    pc[t] \in {"ai_glob", "ai_next", "iz_isfile", "iz_open", "iz_extract", "iz_merge",
               "iz_unlink", "iz_ret"}

C9_LedgerFailureTolerated ==
    [][\A t \in Threads :
        (pc[t] \in {"um_failed", "um_raised"} /\ pc'[t] # pc[t]) =>
            /\ fs'.manifest = um_pre[t] /\ fs'.tmp = NoFile
            /\ progress_q' = progress_q
            /\ staging[port[t].name] # NoZip
            /\ staging'[port[t].name] = staging[port[t].name]
            /\ port[t].name \in pending_install']_vars

\* ------------------------------------------------------------------------
\* Claims about install_zip (checked under SpecInstall)
\* ------------------------------------------------------------------------
\* C10: install_zip on an archive without a descriptor returns a non-zero
\* status and leaves the archive file as it is; install_zip on an archive
\* with a descriptor whose extraction has succeeded returns 0 with the
\* archive file removed.
C10_InstallOutcome ==
    [][\A t \in Threads :
        /\ (pc[t] = "iz_open" /\ is_zipfile(ZipOf(t))
                /\ target_json(ArchiveOf(t).entries) = None) =>
            /\ pc'[t] = "iz_ret" /\ result'[t] # 0
            /\ staging' = staging /\ ZipOf(t) # NoZip
        /\ (pc[t] \in {"iz_merge", "iz_unlink"} /\ pc'[t] = "iz_ret") =>
            /\ result'[t] = 0
            /\ staging'[Head(zip_files[t])] = NoZip]_vars

\* C11: a failure inside gamelist_add (gameinfo.xml that does not parse, an
\* error while gamelist.xml is loaded or written) does not change what
\* install_zip does after a completed extraction: it goes on to remove the
\* staged archive and return 0.
C11_MergeFailureTolerated ==
    [][\A t \in Threads :
        pc[t] = "iz_merge" =>
            /\ pc'[t] = "iz_unlink"
            /\ result'[t] = result[t]]_vars

\* C12: when ZipFile() rejects the staged file or extractall raises,
\* install_zip returns a non-zero status and no step of the call has
\* changed the staged file, which is still there.
C12_FailedInstallKeepsArchive ==
    [][\A t \in Threads :
        /\ pc[t] \in {"iz_isfile", "iz_open", "iz_extract"} => staging' = staging
        /\ (pc[t] = "iz_open" /\ ~is_zipfile(ZipOf(t))) =>
            /\ pc'[t] = "iz_ret" /\ result'[t] # 0
            /\ staging'[Head(zip_files[t])] # NoZip
        /\ (pc[t] = "iz_extract" /\ pc'[t] # "iz_merge") =>
            /\ pc'[t] = "iz_ret" /\ result'[t] # 0
            /\ staging'[Head(zip_files[t])] # NoZip]_vars

\* install_zip has returned 255 on a valid archive with a descriptor whose
\* extraction raised after it had written a file.
C12_Witness ==
    /\ "extract" \in faults
    /\ pc[1] = "iz_ret" /\ result[1] = 255
    /\ zip_files[1] # <<>>
    /\ is_zipfile(ZipOf(1))
    /\ target_json(ArchiveOf(1).entries) # None
    /\ lib[base_dir(target_json(ArchiveOf(1).entries))].files # {}

\* ------------------------------------------------------------------------
\* Claims about gamelist_add (checked under SpecMerge and SpecIndex)
\* ------------------------------------------------------------------------
\* The <game> elements of a gamelist.xml: none when it is absent or does
\* not parse.
entries(f) == IF f.t = "xml" THEN f.games ELSE <<>>
PathsOf(games) == {games[i].path : i \in DOMAIN games} \ {NoPath}
NoDupPaths(games) ==
    \A i, j \in DOMAIN games : (i # j /\ games[i].path # NoPath) => games[i].path # games[j].path
IsPrefix(p, q) == Len(p) <= Len(q) /\ SubSeq(q, 1, Len(p)) = p

\* The reference union by path: the indices of the source entries that
\* carry a path which neither the old entries nor an earlier source entry
\* has, and the old entries followed by the source entries at those indices.
NewIndices(old, src) ==
    {i \in DOMAIN src :
        /\ src[i].path # NoPath
        /\ src[i].path \notin PathsOf(old)
        /\ \A j \in 1..(i - 1) : src[j].path # src[i].path}
RECURSIVE Restrict(_, _)
Restrict(seq, idx) ==
    IF seq = <<>> THEN <<>>
    ELSE LET n == Len(seq)
             front == Restrict(SubSeq(seq, 1, n - 1), idx)
         IN  IF n \in idx THEN Append(front, seq[n]) ELSE front
UnionByPath(old, src) == old \o Restrict(src, NewIndices(old, src))

\* The index file the direct call works on, and what the reference says
\* its entries are after the call.
MergedIndex == lib[merge_call.root].gamelist
MergeExpected ==
    IF merge_call.src.t = "xml"
    THEN UnionByPath(entries(merge_call.pre), merge_call.src.games)
    ELSE entries(merge_call.pre)

\* C13: after gamelist_add has returned, the entries of the index are the
\* old entries when every path of the source document was already there,
\* and otherwise the old entries followed by the source entries whose path
\* was new, once per path and in source order.
C13_MergeIsUnionByPath ==
    merge_call.pc = "returned" =>
        /\ entries(MergedIndex) = MergeExpected
        /\ (merge_call.src.t = "xml"
                /\ PathsOf(merge_call.src.games) \subseteq PathsOf(entries(merge_call.pre))) =>
            entries(MergedIndex) = entries(merge_call.pre)

\* A merge has returned that appended one entry of its source document and
\* dropped another.
C13_Witness ==
    /\ merge_call.pc = "returned"
    /\ merge_call.src.t = "xml"
    /\ Len(entries(MergedIndex)) > Len(entries(merge_call.pre))
    /\ Len(entries(MergedIndex)) < Len(entries(merge_call.pre)) + Len(merge_call.src.games)
    /\ entries(merge_call.pre) # <<>>

\* C14: in a library that started without an index or with an empty one,
\* no two entries of an index have the same path, whatever installs and
\* merges have run.
C14_NoDuplicatePath ==
    \A r \in DOMAIN lib : NoDupPaths(entries(lib[r].gamelist))

\* Two merges into the same index have each appended an entry, the second
\* from a source document that repeats a path.
C14_Witness ==
    /\ merge_call.pc = "returned"
    /\ merge_call.src.t = "xml"
    /\ ~NoDupPaths(merge_call.src.games)
    /\ entries(merge_call.pre) # <<>>
    /\ Len(entries(MergedIndex)) > Len(entries(merge_call.pre))

C16_WriteOnlyWhenChanged ==
    merge_call.pc = "returned" =>
        IF MergeExpected = entries(merge_call.pre)
        THEN MergedIndex = merge_call.pre
        ELSE MergedIndex.t = "xml" /\ MergedIndex.games = MergeExpected

\* A merge of a document whose games add nothing has returned without
\* creating the index.
C16_Witness ==
    /\ merge_call.pc = "returned"
    /\ merge_call.src.t = "xml" /\ merge_call.src.games # <<>>
    /\ merge_call.pre = NoFile
    /\ MergedIndex = NoFile

\* C17: after a merge that found an index which does not parse, the index
\* is a document that parses and holds only entries of the source document.
C17_CorruptIndexReplaced ==
    (merge_call.pc = "returned" /\ merge_call.pre = Garbage) =>
        /\ MergedIndex.t = "xml"
        /\ \A i \in DOMAIN MergedIndex.games :
            merge_call.src.t = "xml"
                /\ \E j \in DOMAIN merge_call.src.games :
                    MergedIndex.games[i] = merge_call.src.games[j]

\* ------------------------------------------------------------------------
\* Claims about fetch_repo_images (checked under SpecImages)
\* ------------------------------------------------------------------------
\* The descriptor the remote asset of this sync would leave.
RemoteDescriptor == Descriptor(Assets[sync.remote].id, Assets[sync.remote].size)
\* images.json held, at the call, the id and the size of the remote asset.
CachedIsCurrent ==
    /\ sync.pre.meta.t = "json" /\ sync.pre.meta.n = WriteChunks
    /\ sync.pre.meta.v.j = "obj"
    /\ sync.pre.meta.v = RemoteDescriptor

\* C18: when images.json holds the id and the size of the remote asset, the
\* sync fetches no archive and leaves every file of images_dir as it was;
\* when one of them differs and no step fails, the sync ends with exactly
\* the names of the new archive in images_dir, images.json holding the
\* remote id and size, and images.zip removed.
C18_ImageSync ==
    sync.remote # None =>
        /\ CachedIsCurrent =>
            /\ ~sync.fetched
            /\ images = sync.pre
            /\ sync.pc \in {"stale", "done"}
        /\ (~CachedIsCurrent /\ sync.pc = "done" /\ ~sync.errors) =>
            /\ sync.fetched
            /\ images.files = Assets[sync.remote].entries
            /\ images.meta = Text(RemoteDescriptor, WriteChunks)
            /\ images.zip = NoFile

\* A sync has replaced images that were cached under the same id and
\* another size.
C18_Witness ==
    /\ sync.pc = "done" /\ sync.remote = "r7b" /\ ~sync.errors
    /\ sync.pre.meta = Text(Descriptor(7, 1000), WriteChunks)
    /\ sync.pre.files = {"a.png", "old/"}
    /\ images.files = {"c.png"}

\* C19: a sync that failed after the staleness test ends with images.zip
\* removed and with the files of images_dir and images.json as they were at
\* the call.
C19_FailedSyncLeavesImages ==
    (sync.pc = "done" /\ sync.failed) =>
        /\ images.zip = NoFile
        /\ images.files = sync.pre.files
        /\ images.meta = sync.pre.meta

\* ------------------------------------------------------------------------
\* Claims about the sticky message (checked under SpecSticky)
\* ------------------------------------------------------------------------
\* C20: a render pass that has drained an event displays it and restarts
\* its age; a render pass that has drained none displays the same message
\* as the pass before while that message is less than 2 seconds old, and
\* displays no message once it is 2 seconds old or older; nothing but a
\* render pass changes the message.
C20_ProgressSticky ==
    [][/\ (ui_pc = "show" /\ ui_pc' = "keys" /\ latest # NoEvent) =>
            (last_progress_msg' = latest /\ sticky_age' = 0)
       /\ (ui_pc = "show" /\ ui_pc' = "keys" /\ latest = NoEvent /\ sticky_age < 2) =>
            last_progress_msg' = last_progress_msg
       /\ (ui_pc = "show" /\ ui_pc' = "keys" /\ latest = NoEvent /\ sticky_age >= 2) =>
            last_progress_msg' = NoEvent
       /\ ~(ui_pc = "show" /\ ui_pc' = "keys") =>
            last_progress_msg' = last_progress_msg]_vars

\* A render pass has dropped the message of the end of an install pass
\* after 2 seconds without an event.
C20_Witness ==
    /\ ui_pc = "keys" /\ current_view = "ports"
    /\ last_progress_msg = NoEvent
    /\ sticky_age = 2
    /\ progress_q = <<>>
    /\ pc[1] = "get" /\ dl_queue = <<>>

\* ------------------------------------------------------------------------
\* Claims about the progress consumer (checked under SpecSticky)
\* ------------------------------------------------------------------------
\* C21: a render pass takes the events of the progress channel one by one
\* from its head, never waits for one (in the loop a turn can always be
\* taken), and leaves the loop only when the channel is empty; the message
\* it then displays is the event it took last; a pass that found the channel
\* empty leaves the displayed message as it was while that message is less
\* than 2 seconds old.
C21_DrainKeepsLast ==
    /\ [](ui_pc = "render" => ENABLED render_ports_get)
    /\ [][/\ (ui_pc = "render" /\ Len(progress_q') < Len(progress_q)) =>
               (/\ progress_q' = Tail(progress_q)
                /\ latest' = Head(progress_q)
                /\ ui_pc' = "render")
          /\ (ui_pc = "render" /\ ui_pc' # "render") =>
               (/\ progress_q = <<>> /\ progress_q' = <<>>
                /\ ui_pc' = "show"
                /\ latest' = latest)
          /\ (ui_pc = "render" /\ Len(progress_q') >= Len(progress_q)) =>
               latest' = latest
          /\ (ui_pc = "show" /\ ui_pc' # "show" /\ latest # NoEvent) =>
               last_progress_msg' = latest
          /\ (ui_pc = "show" /\ ui_pc' # "show" /\ latest = NoEvent
                   /\ sticky_age < PROGRESS_STICKY_SECONDS) =>
               last_progress_msg' = last_progress_msg
          /\ ui_pc \in {"render", "show"} => last_progress_msg' \in {last_progress_msg, latest, NoEvent}]_vars

\* In the middle of a pass: one event has been taken, and a different one
\* is at the head of the channel.
C21_Witness ==
    /\ ui_pc = "render"
    /\ latest # NoEvent
    /\ progress_q # <<>>
    /\ Head(progress_q) # latest
    /\ last_progress_msg \notin {NoEvent, latest}

\* ------------------------------------------------------------------------
\* Claims about the sentinel (checked under SpecSentinel)
\* ------------------------------------------------------------------------
\* C22: the worker takes dl_queue from its head, one item per turn of the
\* loop, and nothing else changes the queue but the put of None; a request it takes becomes the
\* transfer it starts; when it takes None it leaves run in that step, with
\* no file, ledger, library or event changed, and from then on it changes
\* none of them and leaves what is behind None in the queue; it leaves run
\* only by taking None; and it does take it: the worker ends.
C22_SentinelEndsLoop ==
    /\ [][/\ dl_queue' # dl_queue =>
                \/ dl_queue' = Append(dl_queue, Sentinel) /\ pc' = pc
                \/ pc[1] = "get" /\ dl_queue # <<>> /\ dl_queue' = Tail(dl_queue)
          /\ (pc[1] = "get" /\ pc'[1] # "get" /\ Head(dl_queue) # Sentinel) =>
                (/\ pc'[1] = "dl_open"
                 /\ port'[1].name = Head(dl_queue)[1]
                 /\ kind'[1] = Head(dl_queue)[2])
          /\ (pc[1] = "get" /\ pc'[1] # "get" /\ Head(dl_queue) = Sentinel) =>
                (/\ ~InRun(1)'
                 /\ <<fs, staging, lib, progress_q>>' = <<fs, staging, lib, progress_q>>)
          /\ (InRun(1) /\ ~InRun(1)') =>
                (pc[1] = "get" /\ dl_queue # <<>> /\ Head(dl_queue) = Sentinel)
          /\ ~InRun(1) =>
                (/\ ~InRun(1)'
                 /\ <<dl_queue, fs, staging, lib, progress_q>>'
                        = <<dl_queue, fs, staging, lib, progress_q>>)]_vars
    /\ <>(pc[1] = "dead")

\* The worker has ended: the two requests ahead of None were transferred
\* (their archives are staged, no install pass ran) and the request behind
\* None is still in the queue.
C22_Witness ==
    /\ pc[1] = "dead"
    /\ dl_queue = <<<<"Foo", "bottle">>>>
    /\ staging["foo"] # NoZip /\ staging["bar"] # NoZip
    /\ staging["Foo"] = NoZip
    /\ lib = EmptyLib

\* ------------------------------------------------------------------------
\* Claims about shutdown (checked under Spec)
\* ------------------------------------------------------------------------
\* None is among the items of dl_queue.
SentinelQueued == \E i \in 1..Len(dl_queue) : dl_queue[i] = Sentinel
InCleanup == ui_pc \in {"cl_wait", "cl_drain_dl", "cl_drain_pq"}

\* C23: from the put of None by cleanup() until the process exits, a worker
\* that is in run has None ahead of it in dl_queue, whatever the wait and the
\* drains of cleanup() have done, and no worker is ended by the exit of the
\* process instead of by None.
C23_SentinelReachesWorker ==
    /\ InCleanup => \A t \in Threads : InRun(t) => SentinelQueued
    /\ \A t \in Threads : pc[t] # "killed"

\* C23 as amended: while cleanup() waits, a worker that is in run has None
\* ahead of it in dl_queue; a worker is ended without having taken None only
\* by the exit of the process, and when the process has exited no worker is
\* alive.
C23_ShutdownEndsWorkers ==
    /\ ui_pc = "cl_wait" => \A t \in Threads : InRun(t) => SentinelQueued
    /\ \A t \in Threads : pc[t] = "killed" => ui_pc = "exited"
    /\ ui_pc = "exited" => \A t \in Threads : ~is_alive(t)

\* The wait of cleanup() ended on its deadline and the drain of dl_queue
\* took None away: the worker waits in get() on the empty queue.
C23_Witness ==
    /\ ui_pc = "cl_drain_pq"
    /\ dl_queue = <<>>
    /\ \E t \in Threads : pc[t] = "get"

\* ------------------------------------------------------------------------
\* Claims about failures (checked under Spec)
\* ------------------------------------------------------------------------
\* C24: no failure of a transfer, a ledger read or write, or an install
\* leaves Downloader.run as an exception: a worker never reaches the except
\* clause of _download_wrapper, after which its thread ends with dl_queue
\* unattended.
C24_NoFailureLeavesRun == \A t \in Threads : pc[t] # "crashing"

\* ------------------------------------------------------------------------
\* Claims about concurrent ledger writers (checked under SpecWriters)
\* ------------------------------------------------------------------------
\* C25: with two calls of _update_manifest interleaved in any order, the
\* ledger file is at every moment absent (as before the first write) or the
\* complete text of a document, and no call ends in its except clause or
\* lets an exception through.
C25_InterleavedWritersSafe ==
    /\ Exists(fs.manifest) => Parsable(fs.manifest)
    /\ \A t \in Threads : pc[t] \notin {"um_except", "um_failed", "um_raised"}

\* ------------------------------------------------------------------------
\* Claims about what a merge reports (checked under SpecMerge)
\* ------------------------------------------------------------------------
\* By how many entries the index has grown since the call.
IndexGrowth ==
    Len(entries(lib[merge_call.root].gamelist)) - Len(entries(merge_call.pre))

ExtractionDone(t) ==
    LET a == ArchiveOf(t)
    IN  {a.entries[i] : i \in DOMAIN a.entries} \ {e \in {a.entries[i] : i \in DOMAIN a.entries} : is_junk(e)}
            \subseteq lib[base_dir(target_json(a.entries))].files

\* C27: install_zip reaches the merge only from a completed extraction and
\* the deletion of the archive only from the merge (attempted, or skipped
\* for want of a gameinfo.xml); at both the archive is fully extracted;
\* files are written only by the extraction, gamelist.xml only by the
\* merge, and the staged archive is removed only by the deletion, which
\* removes the archive being installed and no other.
C27_InstallOrder ==
    /\ [](pc[1] \in {"iz_merge", "iz_unlink"} => ExtractionDone(1))
    /\ [][/\ (pc'[1] = "iz_merge" /\ pc[1] # "iz_merge") => pc[1] = "iz_extract"
          /\ (pc'[1] = "iz_unlink" /\ pc[1] # "iz_unlink") => pc[1] = "iz_merge"
          /\ (\E r \in DOMAIN lib : lib'[r].files # lib[r].files) => pc[1] = "iz_extract"
          /\ (\E r \in DOMAIN lib : lib'[r].gamelist # lib[r].gamelist) => pc[1] = "iz_merge"
          /\ staging' # staging =>
                (/\ pc[1] = "iz_unlink"
                 /\ staging' = [staging EXCEPT ![Head(zip_files[1])] = NoZip])]_vars

\* install_zip has returned 0 for foo.zip: its files are in the ports
\* root, its game is in gamelist.xml after the one that was there, and the
\* archive is gone.
C27_Witness ==
    /\ pc[1] = "iz_ret" /\ result[1] = 0
    /\ zip_files[1] = <<"foo">>
    /\ staging["foo"] = NoZip
    /\ "foo/data" \in lib["ports"].files
    /\ lib["ports"].gamelist = Xml("gamelist", <<Game("./other", "o"), Game(NoPath, "n"),
                                                  Game("./foo", "c1")>>)

\* ------------------------------------------------------------------------
\* Claims about install passes (checked under SpecPass and Spec)
\* ------------------------------------------------------------------------
\* Thread t is in the for loop of _run_autoinstall.
InPass(t) ==
    pc[t] \in {"ai_next", "iz_isfile", "iz_open", "iz_extract", "iz_merge", "iz_unlink", "iz_ret"}

\* C28: an install pass starts with the staged archives in ascending order
\* of their names, attempts the first of those left and drops it from them
\* when install_zip has returned, whatever it returned, and ends (other than
\* by the exit of the process) only when none is left to attempt.
C28_PassAttemptsAll ==
    [][\A t \in Threads :
        /\ (pc[t] = "ai_glob" /\ pc'[t] = "ai_next") =>
                zip_files'[t] = sorted({n \in DOMAIN staging : staging[n] # NoZip})
        /\ (pc[t] = "iz_ret" /\ pc'[t] = "ai_next") => zip_files'[t] = Tail(zip_files[t])
        /\ (InPass(t) /\ InPass(t)' /\ pc[t] # "iz_ret") => zip_files'[t] = zip_files[t]
        /\ (InPass(t) /\ ~InPass(t)' /\ pc'[t] # "killed") =>
                (zip_files[t] = <<>> \/ (pc[t] # "ai_next" /\ Tail(zip_files[t]) = <<>>))]_vars

RECURSIVE DestinationOf(_)
DestinationOf(es) ==
    IF es = <<>> THEN None
    ELSE IF ends_with_port_json(Head(es)) THEN "ports"
    ELSE IF ends_with_bottle_json(Head(es)) THEN "windows"
    ELSE DestinationOf(Tail(es))

\* The partition of the ledger that holds a record of the package.
PartitionsOf(name) ==
    IF Parsable(fs.manifest) /\ fs.manifest.v.j = "obj"
    THEN {k \in DOMAIN fs.manifest.v.m :
            \E i \in DOMAIN fs.manifest.v.m[k] : fs.manifest.v.m[k][i].name = name}
    ELSE {}

\* C30: whatever kind the request carried, an install changes the files
\* and the gamelist.xml of one library root only, the one the first
\* descriptor entry of the archive names: the ports root for a port
\* descriptor, the windows root for a bottle descriptor.
C30_RootFromArchive ==
    [][lib' # lib =>
        /\ pc[1] \in {"iz_extract", "iz_merge"}
        /\ DestinationOf(ArchiveOf(1).entries) \in DOMAIN lib
        /\ \A r \in DOMAIN lib :
                r # DestinationOf(ArchiveOf(1).entries) => lib'[r] = lib[r]]_vars

\* "foo" was requested as a bottle and is recorded in the bottles partition
\* of the ledger; its archive, which holds a port descriptor, is installed
\* in the ports root and nothing is in the windows root.
C30_Witness ==
    /\ PartitionsOf("foo") = {"bottles"}
    /\ "foo/data" \in lib["ports"].files
    /\ lib["windows"].files = {}
    /\ staging["foo"] = NoZip

\* ------------------------------------------------------------------------
\* Claims about repeated installs (checked under Spec)
\* ------------------------------------------------------------------------
\* The gamelist.xml of the root the archive t installs goes to, and the
\* gameinfo.xml of that archive.
IndexOf(t) == lib[base_dir(target_json(ArchiveOf(t).entries))].gamelist
SourceOf(t) == ArchiveOf(t).gameinfo
\* The index holds an entry for every path of the source document, as an
\* install of the same content leaves it.
InstalledBefore(t) ==
    /\ SourceOf(t).t = "xml" /\ IndexOf(t).t = "xml"
    /\ PathsOf(SourceOf(t).games) # {}
    /\ PathsOf(SourceOf(t).games) \subseteq PathsOf(IndexOf(t).games)

\* C31: the merge of an install whose archive content was installed before
\* leaves gamelist.xml as it is, entries and order; and after the merge of
\* any install, merging the same gameinfo.xml once more would change nothing.
C31_ReinstallKeepsIndex ==
    [][\A t \in Threads :
        (pc[t] = "iz_merge" /\ pc'[t] # "iz_merge" /\ pc'[t] # "killed") =>
            /\ InstalledBefore(t) => lib' = lib
            /\ (SourceOf(t).t = "xml") =>
                    gamelist_add(SourceOf(t), IndexOf(t)', "ok").gamelist = IndexOf(t)']_vars

\* foo.zip was installed, transferred again and extracted again: the worker
\* has merged its gameinfo.xml a second time and the index holds the one
\* entry of the first install.
C31_Witness ==
    \E t \in Threads :
        /\ pc[t] = "iz_unlink" /\ Head(zip_files[t]) = "foo"
        /\ lib["ports"].gamelist = Xml("gameList", <<Game("./foo", "c1")>>)
        /\ last_progress_msg = StatusEvent("foo", 0)

\* ------------------------------------------------------------------------
\* Claims about the events of a transfer (checked under SpecTransfer, where
\* nothing takes from progress_q: it holds every event put so far)
\* ------------------------------------------------------------------------
LastEvent == progress_q[Len(progress_q)]

\* C32: the step that ends the streaming of a transfer puts one event
\* "Downloaded" whose two counts are the number of chunks staged, the whole
\* content; the events before it are the chunk events of this transfer,
\* counting 1, 2, ... up to that number, none above its total; no other
\* step puts a "Downloaded" event; it is the last event put when the ledger
\* update starts; and a transfer that fails while streaming puts none.
C32_DownloadEvents ==
    /\ [](\A t \in Threads : pc[t] = "um_load" =>
            LastEvent = DownloadedEvent(port[t].name, staging[port[t].name].n))
    /\ [][\A t \in Threads :
            /\ (pc[t] = "dl_final" /\ pc'[t] # "dl_final") =>
                LET k == downloaded[t]
                    L == Len(progress_q)
                IN  /\ pc'[t] = "dl_hash"
                    /\ staging[port[t].name] = Zip(content[t], st_size(content[t]))
                    /\ k = st_size(content[t])
                    /\ progress_q' = Append(progress_q,
                            Event(k, k, <<"Downloaded", title(port[t].name)>>, "download"))
                    /\ L >= k
                    /\ \A i \in 1..k :
                            /\ progress_q[L - k + i].dl = i
                            /\ progress_q[L - k + i].dl <= progress_q[L - k + i].tot
                            /\ progress_q[L - k + i].stage = "download"
                            /\ progress_q[L - k + i].txt = <<"progress", title(port[t].name)>>
            /\ (pc[t] # "dl_final" /\ pc'[t] # pc[t]) =>
                    \/ progress_q' = progress_q
                    \/ progress_q'[Len(progress_q')].txt[1] # "Downloaded"
            /\ (pc[t] \in {"dl_open", "dl_create", "dl_read"} /\ pc'[t] = "dl_except") =>
                    progress_q' = progress_q]_vars

\* The ledger update of "bar" starts: two chunk events with an unknown
\* Content-Length and the event "Downloaded" with the counts 2 and 2 are
\* the last three events put.
C32_Witness ==
    /\ pc[1] = "um_load" /\ port[1].name = "bar"
    /\ Len(progress_q) >= 3
    /\ SubSeq(progress_q, Len(progress_q) - 2, Len(progress_q)) =
            <<ChunkEvent("bar", 1, 0), ChunkEvent("bar", 2, 0), DownloadedEvent("bar", 2)>>

\* ------------------------------------------------------------------------
\* Claims about retries (checked under Spec)
\* ------------------------------------------------------------------------
\* C33: a transfer is started only by the step that takes its request from
\* the head of dl_queue, one transfer per request taken; the step that
\* handles a failed transfer goes on to the check of the queue and leaves the
\* queue as it is; and only steps of the main thread (a key in the ports
\* view, the put of None in cleanup) add to dl_queue.
C33_NoAutomaticRetry ==
    [][/\ \A t \in Threads :
            /\ (pc'[t] = "dl_open" /\ pc[t] # "dl_open") =>
                    /\ pc[t] = "get" /\ dl_queue # <<>>
                    /\ dl_queue' = Tail(dl_queue)
                    /\ <<port'[t].name, kind'[t]>> = Head(dl_queue)
            /\ (pc[t] = "dl_except" /\ pc'[t] \notin {"dl_except", "killed"}) =>
                    (pc'[t] = "check" /\ dl_queue' = dl_queue)
       /\ Len(dl_queue') > Len(dl_queue) =>
            /\ pc' = pc
            /\ ui_pc \in {"keys", "put_all", "cl_put"}
            /\ Len(dl_queue') = Len(dl_queue) + 1]_vars

\* The transfer of "foo" failed; the worker waits in get() on the empty
\* queue, the failure is the message displayed and no foo.zip is staged.
C33_Witness ==
    /\ \E t \in Threads : pc[t] = "get"
    /\ dl_queue = <<>>
    /\ last_progress_msg = FailedEvent("foo")
    /\ staging["foo"] = NoZip
    /\ "transfer" \in faults

\* ------------------------------------------------------------------------
\* Claims about the index of update detection (checked under SpecTransfer)
\* ------------------------------------------------------------------------
\* C34: local_md5s is what the load at the start made of the ledger, and no
\* step changes it: a transfer, the ledger update that follows it and the
\* install pass leave every name of the index with the value, or the
\* absence, it had at the start.
C34_IndexLoadedOnce ==
    /\ local_md5s = load_local_md5s(fs.manifest)
    /\ [][/\ local_md5s' = local_md5s
          /\ \A t \in Threads : \A n \in PortNames :
                (pc[t] = "um_replace" /\ pc'[t] = "um_done") =>
                    index_get(local_md5s', n) = index_get(local_md5s, n)]_vars

\* The ledger held the fingerprint h2 for "Foo" at the start; "Foo" has been
\* transferred and the ledger written holds h3 for it, the index still h2.
C34_Witness ==
    /\ pc[1] = "um_done" /\ port[1].name = "Foo"
    /\ index_get(local_md5s, "Foo") = "h2"
    /\ index_get(load_local_md5s(fs.manifest), "Foo") = "h3"

\* ------------------------------------------------------------------------
\* Claims about the consumer of dl_queue (checked under Spec)
\* ------------------------------------------------------------------------
\* A request, not None, is among the items of dl_queue.
RequestQueued == \E i \in 1..Len(dl_queue) : dl_queue[i] # Sentinel

\* C35: when the main thread is between two handlers, every submit having
\* returned, and a request is in dl_queue, a DownloaderThread is alive to
\* take it.
C35_QueuedHasConsumer ==
    (MainThreadIdle /\ RequestQueued) => \E t \in Threads : is_alive(t)

InTransfer(t) ==
    pc[t] \in {"dl_open", "dl_create", "dl_read", "dl_final", "dl_hash", "um_load", "um_merge",
               "um_open", "um_dump", "um_fsync", "um_replace", "um_done", "um_except",
               "um_failed", "um_raised", "dl_except"}

\* C37: every step that shortens dl_queue takes its head away, and is either
\* a get of one worker, which starts the transfer of that request (or ends
\* the worker, the head being None), or a step of a drain of the main
\* thread, which moves no worker and touches nothing a transfer works on;
\* a transfer is started by no other step.
C37_DrainTakesPendingOnly ==
    [][/\ Len(dl_queue') < Len(dl_queue) =>
            /\ dl_queue' = Tail(dl_queue)
            /\ \/ /\ ui_pc \in {"drain", "cl_drain_dl"} /\ ui_pc' = ui_pc
                  /\ UNCHANGED <<pc, port, kind, content, downloaded, total, staging, fs, fd,
                                 data, um_pre, progress_q, pending_install, download_active>>
               \/ \E t \in Threads :
                    /\ pc[t] = "get" /\ ui_pc' = ui_pc
                    /\ \A u \in Threads \ {t} : pc'[u] = pc[u]
                    /\ IF Head(dl_queue) = Sentinel
                       THEN pc'[t] = "wrapper_finally"
                       ELSE /\ pc'[t] = "dl_open"
                            /\ <<port'[t].name, kind'[t]>> = Head(dl_queue)
       /\ \A t \in Threads :
            /\ (pc'[t] = "dl_open" /\ pc[t] # "dl_open") => Len(dl_queue') < Len(dl_queue)
            /\ (InTransfer(t) /\ ui_pc = "drain" /\ ui_pc' = "frame") =>
                    (pc'[t] = pc[t] /\ port'[t] = port[t])]_vars

\* The drain of the Back key has a request to take away while a worker is
\* streaming the request it took before.
C37_Witness ==
    /\ ui_pc = "drain"
    /\ dl_queue = <<<<"bar", "port">>>>
    /\ \E t \in Threads : pc[t] = "dl_read" /\ port[t].name = "foo"

\* ------------------------------------------------------------------------
\* Claims about the archives left at shutdown (checked under SpecSentinel)
\* ------------------------------------------------------------------------
\* The worker has left run.
LeftRun(t) == pc[t] \in {"wrapper_finally", "exiting", "dead"}

Names(im, a) == im.meta = Text(Descriptor(Assets[a].id, Assets[a].size), WriteChunks)
\* Whatever asset images.json names, the directory holds all its contents.
DescriptorHolds(im) == \A a \in DOMAIN Assets : Names(im, a) => Assets[a].entries \subseteq im.files

\* C39: a sync that found images_dir holding all the contents of the asset
\* its images.json names ends, failed or not, with images_dir holding all
\* the contents of the asset images.json then names, so that no later sync
\* finds the descriptor current over an incomplete image set.
C39_DescriptorAfterExtraction ==
    (sync.pc = "done" /\ DescriptorHolds(sync.pre)) => DescriptorHolds(images)

\* ------------------------------------------------------------------------
\* Claims about the entries one source document adds (checked under
\* SpecMerge)
\* ------------------------------------------------------------------------
\* What the call that has returned appended to the index it found.
Appended ==
    SubSeq(entries(MergedIndex), Len(entries(merge_call.pre)) + 1, Len(entries(MergedIndex)))

\* C40: of the entries a merge appended, each carries a path, no two carry
\* the same path, and each is the first entry of the source document with
\* its path; a source entry is represented among them exactly when it
\* carries a path that no entry of the index found carries, the entries of
\* the index that carry no path counting for nothing in that test.
C40_FirstOfEachPath ==
    (merge_call.pc = "returned" /\ merge_call.src.t = "xml") =>
        LET src == merge_call.src.games
            old == entries(merge_call.pre)
        IN  /\ IsPrefix(old, entries(MergedIndex))
            /\ \A i \in DOMAIN Appended :
                    /\ Appended[i].path # NoPath
                    /\ \A j \in DOMAIN Appended : i # j => Appended[j].path # Appended[i].path
                    /\ \E k \in DOMAIN src :
                        /\ src[k] = Appended[i]
                        /\ \A m \in 1..(k - 1) : src[m].path # src[k].path
                    /\ \A k \in DOMAIN old : old[k].path # Appended[i].path
            /\ \A k \in DOMAIN src :
                    (src[k].path # NoPath /\ \A m \in DOMAIN old : old[m].path # src[k].path) =>
                        \E i \in DOMAIN Appended : Appended[i].path = src[k].path

\* The index found holds an entry without a path; the source document holds
\* two entries of the path ./bar, and the first of them alone was appended.
C40_Witness ==
    /\ merge_call.pc = "returned"
    /\ merge_call.src = Xml("gameList", <<Game("./bar", "s1"), Game("./bar", "s1")>>)
    /\ \E k \in DOMAIN entries(merge_call.pre) : entries(merge_call.pre)[k].path = NoPath
    /\ Appended = <<Game("./bar", "s1")>>

====
